---- MODULE Spec2Model ----
(***************************************************************************)
(* AppInstaller: the ZIP reader/extractor of zip_utils.rs and the          *)
(* update/install workflow of install_utils.rs, with the start-up code of  *)
(* main.rs.                                                                *)
(*                                                                         *)
(* Bytes are naturals 0..255, buffers are sequences of bytes, text is a    *)
(* sequence of code points, a path is a sequence of components (each a     *)
(* sequence of code points) below the drive root <<>>.                     *)
(***************************************************************************)
EXTENDS Integers, Sequences, FiniteSets, TLC

VARIABLES
    zbuf,      \* unzip: the archive buffer read from the zip file
    zpc,       \* unzip: "parse" | "extract" | "done" | "off"
    zret,      \* unzip: what parse_central_directory returned
    zscan,     \* unzip: (history) the scan offsets of parse_central_directory
    zk,        \* unzip: number of entries whose extraction was attempted
    zlast,     \* unzip: the last extract_file call: its entry, the system call
               \* that failed in it, the filesystem before it, what it returned;
               \* rets are the returns of all the calls so far
    fs,        \* the filesystem: path -> node
    pc,        \* worker: the statement of run_installation it stands at
    app_name,  \* worker: the argument of run_installation
    DEBUG,     \* the DEBUG flag
    log,       \* the rows of the list view, oldest first
    running,   \* environment: a process named <app_name>.exe exists
    shell_ok,  \* environment: the shell's known-folder calls succeed
    current_exe,      \* environment: env::current_exe()
    copied_zip_path,  \* worker: the local of that name, <<>> or <<path>>
    exe_path,         \* worker: the local of that name, <<>> or <<path>>
    EXE_PATH_TO_RUN,  \* the hand-off to the UI, <<>> or <<path>>
    hist,      \* (history) phases entered, outcome, snapshots of the run
    args,      \* start-up: the command line after the program name
    mpc,       \* start-up: "main" | "create" | "loop" | "exit"
    APP_NAME,  \* start-up: the static APP_NAME, <<>> or <<name>>
    worker,    \* start-up: the names run_installation was spawned with
    peer,      \* a second installer process: its worker's locals while the other runs
    twin,      \* the same run with the other value of DEBUG: what is compared
    listview,  \* window: the rows of the list-view control
    ui,        \* window: the thread of the message loop
    wk,        \* window: the worker thread and its call of add_message
    new_name   \* add_spaces: the string it returned, <<>> or <<string>>

zipVars == <<zbuf, zpc, zret, zscan, zk, zlast>>
runVars == <<pc, app_name, running, shell_ok, current_exe, copied_zip_path,
             exe_path, EXE_PATH_TO_RUN, hist>>
mainVars == <<args, mpc, APP_NAME, worker>>
winVars == <<listview, ui, wk>>
extraVars == <<peer, twin, winVars, new_name>>

vars == <<zipVars, fs, runVars, DEBUG, log, mainVars, extraVars>>

----------------------------------------------------------------------------
(* Bounds of the model. *)

\* Largest number of payload bytes of a fixture entry.
MaxPayload == 2
\* Largest number of junk bytes in front of an archive.
MaxJunk == 1

----------------------------------------------------------------------------
(* Sequences and numbers. *)

Min(a, b) == IF a < b THEN a ELSE b

Take(s, n) == SubSeq(s, 1, Min(n, Len(s)))

Drop(s, n) == SubSeq(s, n + 1, Len(s))

Last(s) == s[Len(s)]

Front(s) == SubSeq(s, 1, Len(s) - 1)

RECURSIVE Zeros(_)
Zeros(n) == IF n = 0 THEN <<>> ELSE <<0>> \o Zeros(n - 1)

RECURSIVE Flatten(_)
Flatten(ss) == IF ss = <<>> THEN <<>> ELSE Head(ss) \o Flatten(Tail(ss))

\* usize values that may exceed 2^31 are kept as hi * 65536 + lo (usize is 64 bits,
\* so the sums of u32 and u16 values below never wrap).
Wide(n) == [hi |-> n \div 65536, lo |-> n % 65536]

WAdd(a, b) ==
    LET s == a.lo + b.lo
    IN  [hi |-> a.hi + b.hi + (s \div 65536), lo |-> s % 65536]

WGt(a, b) == a.hi > b.hi \/ (a.hi = b.hi /\ a.lo > b.lo)

\* Only used on values already known to be at most a buffer length.
Narrow(a) == a.hi * 65536 + a.lo

----------------------------------------------------------------------------
(* zip_utils.rs: reading the buffer. *)

\* b"\x50\x4b\x01\x02", the central-directory file-header signature.
DEFLATE_SIGNATURE == <<80, 75, 1, 2>>

\* b"\x50\x4b\x03\x04", the local file-header signature.
LOCAL_SIGNATURE == <<80, 75, 3, 4>>

\* Whether the slice buffer[a..b] exists; taking any other slice panics.
InBounds(buffer, a, b) == 0 <= a /\ a <= b /\ b <= Len(buffer)

\* buffer[a..b] (0-based, b exclusive).
Slice(buffer, a, b) == SubSeq(buffer, a + 1, b)

\* u16::from_le_bytes(buffer[a..a + 2])
U16LE(buffer, a) == buffer[a + 1] + 256 * buffer[a + 2]

\* u32::from_le_bytes(buffer[a..a + 4])
U32LE(buffer, a) == [hi |-> U16LE(buffer, a + 2), lo |-> U16LE(buffer, a)]

\* String::from_utf8_lossy on the bytes the model uses: an ASCII byte is its own
\* code point; a byte F5..FF is valid nowhere in UTF-8 and becomes one U+FFFD.
\* (Buffers of the model hold no byte in 80..F4.)
Utf8Lossy(bytes) ==
    [k \in 1..Len(bytes) |-> IF bytes[k] < 128 THEN bytes[k] ELSE 65533]

NoReturn == [tag |-> "None", kind |-> "", msg |-> ""]
OkReturn == [tag |-> "Ok", kind |-> "", msg |-> ""]
PanicReturn == [tag |-> "Panic", kind |-> "", msg |-> ""]
ErrReturn(kind, msg) == [tag |-> "Err", kind |-> kind, msg |-> msg]

\* while i + 4 <= buffer.len()
ScanCondition(i, buffer) == i + 4 <= Len(buffer)

\* Mutant: the header check covers 42 bytes, not the 46 that are read.
HeaderIncompleteShort(i, buffer) == i + 42 > Len(buffer)

\* if i + 46 > buffer.len()
HeaderIncomplete(i, buffer) == i + 46 > Len(buffer)

\* Mutant: the comment length is left out of the trailer.
TrailerEndNoComment(i, buffer) ==
    i + 46 + U16LE(buffer, i + 28) + U16LE(buffer, i + 30)

\* let total_len = file_name_length + extra_field_length + file_comment_length;
\* let start = i + header_size; let end = start + total_len;
TrailerEnd(i, buffer) ==
    i + 46 + U16LE(buffer, i + 28) + U16LE(buffer, i + 30) + U16LE(buffer, i + 32)

\* if end > buffer.len()
TrailerIncomplete(end, buffer) == end > Len(buffer)

\* Mutant: the scan resumes right after the signature.
NextScanAfterSignature(i, end) == i + 4

\* Mutant: the scan resumes after the fixed header, inside the trailer.
NextScanAfterHeader(i, end) == i + 46

\* i = end;
NextScan(i, end) == end

\* The slices of the fixed header that one iteration takes.
CentralHeaderReads(i) ==
    { <<i + 10, i + 12>>, <<i + 20, i + 24>>, <<i + 28, i + 30>>,
      <<i + 30, i + 32>>, <<i + 32, i + 34>>, <<i + 42, i + 46>> }

\* Mutant: the name runs on over the extra field.
CentralEntryWithExtra(i, buffer) ==
    [ file_name |-> Utf8Lossy(Slice(buffer, i + 46,
                        i + 46 + U16LE(buffer, i + 28) + U16LE(buffer, i + 30))),
      compressed_size |-> U32LE(buffer, i + 20),
      compression_method |-> U16LE(buffer, i + 10),
      local_header_offset |-> U32LE(buffer, i + 42) ]

\* The ZipEntry pushed for the record at i.
CentralEntry(i, buffer) ==
    [ file_name |-> Utf8Lossy(Slice(buffer, i + 46, i + 46 + U16LE(buffer, i + 28))),
      compressed_size |-> U32LE(buffer, i + 20),
      compression_method |-> U16LE(buffer, i + 10),
      local_header_offset |-> U32LE(buffer, i + 42) ]

\* One iteration of the scan loop. st.i and st.entries are the function's
\* locals, st.ret its return once it has returned; st.recs (the offsets of the
\* records consumed) and st.scan (the offsets visited) are history.
ParseStep(sig, buffer, st) ==
    LET i == st.i
        seen == [st EXCEPT !.scan = Append(st.scan, i)]
    IN  IF ~ScanCondition(i, buffer)
        THEN [st EXCEPT !.ret = OkReturn]
        ELSE IF ~InBounds(buffer, i, i + 4)
        THEN [seen EXCEPT !.ret = PanicReturn]
        ELSE IF Slice(buffer, i, i + 4) # sig
        THEN [seen EXCEPT !.i = i + 1]
        ELSE IF HeaderIncomplete(i, buffer)
        THEN [seen EXCEPT !.ret = ErrReturn("UnexpectedEof",
                                    "Incomplete central directory header")]
        ELSE IF \E r \in CentralHeaderReads(i) : ~InBounds(buffer, r[1], r[2])
        THEN [seen EXCEPT !.ret = PanicReturn]
        ELSE LET end == TrailerEnd(i, buffer)
             IN  IF TrailerIncomplete(end, buffer)
                 THEN [seen EXCEPT !.ret = ErrReturn("UnexpectedEof",
                                    "Incomplete file name or extra fields")]
                 ELSE IF ~InBounds(buffer, i + 46, i + 46 + U16LE(buffer, i + 28))
                 THEN [seen EXCEPT !.ret = PanicReturn]
                 ELSE [seen EXCEPT !.i = NextScan(i, end),
                                   !.entries = Append(st.entries, CentralEntry(i, buffer)),
                                   !.recs = Append(st.recs, i)]

RECURSIVE ParseLoop(_, _, _)
ParseLoop(sig, buffer, st) ==
    IF st.ret.tag # "None" THEN st ELSE ParseLoop(sig, buffer, ParseStep(sig, buffer, st))

\* The scan with signature sig, from let mut entries = Vec::new(); let mut i = 0;
ParseWith(sig, buffer) ==
    ParseLoop(sig, buffer,
              [i |-> 0, entries |-> <<>>, recs |-> <<>>, scan |-> <<>>, ret |-> NoReturn])

\* Mutant: the scan looks for the local-header signature.
ParseWithLocalSignature(buffer) == ParseWith(LOCAL_SIGNATURE, buffer)

\* zip_utils::parse_central_directory: the loop's final state.
parse_central_directory(buffer) == ParseWith(DEFLATE_SIGNATURE, buffer)

\* main.rs: const DEFLATE_SIGNATURE: &[u8] = b"\x50\x4b\x03\x04";
main_DEFLATE_SIGNATURE == <<80, 75, 3, 4>>

\* parse_central_directory of main.rs: the same loop with that signature.
main_parse_central_directory(buffer) == ParseWith(main_DEFLATE_SIGNATURE, buffer)

\* What the caller gets: Ok(entries), or Err(e) (and no entries), or a panic.
ParseResult(st) ==
    [ tag |-> st.ret.tag, kind |-> st.ret.kind, msg |-> st.ret.msg,
      entries |-> IF st.ret.tag = "Ok" THEN st.entries ELSE <<>> ]

----------------------------------------------------------------------------
(* Paths and the filesystem the program acts on. *)

\* '/' and '\' both separate components on Windows.
IsSeparator(c) == c \in {47, 92}

\* Path::components of a path text: the separators split it; empty components
\* and "." are dropped, ".." is kept.
RECURSIVE SplitComponents(_, _, _)
SplitComponents(text, cur, acc) ==
    LET done == IF cur = <<>> \/ cur = <<46>> THEN acc ELSE Append(acc, cur)
    IN  IF text = <<>> THEN done
        ELSE IF IsSeparator(Head(text)) THEN SplitComponents(Tail(text), <<>>, done)
        ELSE SplitComponents(Tail(text), Append(cur, Head(text)), acc)

Components(text) == SplitComponents(text, <<>>, <<>>)

\* PathBuf::join: a text that starts with a separator is rooted and replaces
\* the directory (the drive is kept); any other text is appended.
PathJoin(dir, text) ==
    IF text # <<>> /\ IsSeparator(text[1]) THEN Components(text)
    ELSE dir \o Components(text)

\* What the operating system makes of a path when a call uses it: ".." steps
\* to the parent and stays at the root.
RECURSIVE ResolveFrom(_, _)
ResolveFrom(base, p) ==
    IF p = <<>> THEN base
    ELSE IF Head(p) = <<46, 46>>
    THEN ResolveFrom(IF base = <<>> THEN <<>> ELSE Front(base), Tail(p))
    ELSE ResolveFrom(Append(base, Head(p)), Tail(p))

Resolve(p) == ResolveFrom(<<>>, p)

\* Path::extension: what follows the last '.' of the last component, when that
\* component has a '.' after its first character.
RECURSIVE LastDot(_, _)
LastDot(name, k) == IF k = 0 THEN 0 ELSE IF name[k] = 46 THEN k ELSE LastDot(name, k - 1)

Extension(p) ==
    IF p = <<>> \/ Last(p) = <<46, 46>> THEN <<>>
    ELSE LET name == Last(p)
             d == LastDot(name, Len(name))
         IN  IF d <= 1 THEN <<>> ELSE Drop(name, d)

DirNode == [kind |-> "dir", data |-> <<>>, mtime |-> 0, target |-> <<>>]
FileNode(data, mtime) ==
    [kind |-> "file", data |-> data, mtime |-> mtime, target |-> <<>>]

Exists(f, p) == p = <<>> \/ p \in DOMAIN f
IsDir(f, p) == p = <<>> \/ (p \in DOMAIN f /\ f[p].kind = "dir")
IsFile(f, p) == p \in DOMAIN f /\ f[p].kind = "file"

Prefixes(p) == {SubSeq(p, 1, k) : k \in 1..Len(p)}

IsPrefix(d, p) == Len(d) <= Len(p) /\ SubSeq(p, 1, Len(d)) = d

\* Every path of f below (or at) d.
Subtree(f, d) == {p \in DOMAIN f : IsPrefix(d, p)}

Restrict(f, S) == [p \in S |-> f[p]]

\* fs::create_dir_all: [ok, fs]. A component that is a file makes it fail with
\* nothing created; env is whether the system lets a directory be created.
create_dir_all(f, path, env) ==
    LET p == Resolve(path)
        new == {q \in Prefixes(p) : ~Exists(f, q)}
    IN  IF \E q \in Prefixes(p) : IsFile(f, q) THEN [ok |-> FALSE, fs |-> f]
        ELSE IF new = {} THEN [ok |-> TRUE, fs |-> f]
        ELSE IF ~env THEN [ok |-> FALSE, fs |-> f]
        ELSE [ok |-> TRUE, fs |-> [q \in new |-> DirNode] @@ f]

\* OpenOptions::new().write(true).create(true).truncate(true).open(path): the
\* file exists and is empty afterwards; a directory in its place, or no parent
\* directory, makes it fail.
OpenTruncate(f, path, env, now) ==
    LET p == Resolve(path)
    IN  IF p = <<>> \/ IsDir(f, p) \/ ~IsDir(f, Front(p)) \/ ~env
        THEN [ok |-> FALSE, fs |-> f]
        ELSE [ok |-> TRUE, fs |-> [q \in {p} |-> FileNode(<<>>, now)] @@ f]

\* output.write_all(data) on the file just opened at path.
WriteAll(f, path, data, env, now) ==
    IF ~env THEN [ok |-> FALSE, fs |-> f]
    ELSE [ok |-> TRUE, fs |-> [f EXCEPT ![Resolve(path)] = FileNode(data, now)]]

\* flate2's DeflateDecoder on a raw deflate stream made of one final stored
\* block (01, LEN, ~LEN, LEN bytes); every other stream of the model is corrupt.
InflateOk(data) ==
    /\ Len(data) >= 5
    /\ data[1] = 1
    /\ U16LE(data, 1) + U16LE(data, 3) = 65535
    /\ Len(data) >= 5 + U16LE(data, 1)

Inflate(data) == Slice(data, 5, 5 + U16LE(data, 1))

----------------------------------------------------------------------------
(* zip_utils.rs: extract_file. *)

\* Mutant: the local header check covers the signature only.
LocalHeaderIncompleteShort(off, buffer) == WGt(WAdd(off, Wide(4)), Wide(Len(buffer)))

\* if offset + 30 > buffer.len()
LocalHeaderIncomplete(off, buffer) == WGt(WAdd(off, Wide(30)), Wide(Len(buffer)))

\* Mutant: the local extra field is not skipped.
DataStartNoExtra(offset, buffer) == offset + 30 + U16LE(buffer, offset + 26)

\* let data_start = offset + 30 + file_name_length + extra_field_length;
\* with both lengths read from the local header.
DataStart(offset, buffer) ==
    offset + 30 + U16LE(buffer, offset + 26) + U16LE(buffer, offset + 28)

\* let data_end = data_start + entry.compressed_size as usize;
DataEnd(data_start, entry) == WAdd(Wide(data_start), entry.compressed_size)

\* Mutant: a payload that ends one byte beyond the buffer is let through.
DataExceedsBufferByTwo(data_end, buffer) == WGt(data_end, Wide(Len(buffer) + 1))

\* if data_end > buffer.len()
DataExceedsBuffer(data_end, buffer) == WGt(data_end, Wide(Len(buffer)))

\* Mutant: no name is taken for a directory.
NeverDirectoryName(name) == FALSE

\* entry.file_name.ends_with('/')
IsDirectoryName(name) == name # <<>> /\ Last(name) = 47

IoErr(what) == ErrReturn("Io", what)

\* The match on entry.compression_method, on the file opened at path.
WriteMethod(entry, file_data, path, f, fault, now) ==
    IF entry.compression_method = 0
    THEN LET w == WriteAll(f, path, file_data, fault # "write", now)
         IN  [ret |-> IF w.ok THEN OkReturn ELSE IoErr("write_all"), fs |-> w.fs]
    ELSE IF entry.compression_method = 8
    THEN IF ~InflateOk(file_data)
         THEN [ret |-> ErrReturn("InvalidInput", "corrupt deflate stream"), fs |-> f]
         ELSE LET w == WriteAll(f, path, Inflate(file_data), fault # "write", now)
              IN  [ret |-> IF w.ok THEN OkReturn ELSE IoErr("copy"), fs |-> w.fs]
    ELSE [ret |-> ErrReturn("Unsupported", "Unsupported compression method"), fs |-> f]

\* From let path = extract_to_dir.join(&entry.file_name) to the end.
ExtractTo(entry, file_data, extract_to_dir, f, fault, now) ==
    LET path == PathJoin(extract_to_dir, entry.file_name)
    IN  IF IsDirectoryName(entry.file_name)
        THEN LET d == create_dir_all(f, path, fault # "create_dir")
             IN  [ret |-> IF d.ok THEN OkReturn ELSE IoErr("create_dir_all"), fs |-> d.fs]
        ELSE LET d == IF path = <<>> THEN [ok |-> TRUE, fs |-> f]
                      ELSE create_dir_all(f, Front(path), fault # "create_dir")
             IN  IF ~d.ok THEN [ret |-> IoErr("create_dir_all"), fs |-> d.fs]
                 ELSE LET o == OpenTruncate(d.fs, path, fault # "open", now)
                      IN  IF ~o.ok THEN [ret |-> IoErr("open"), fs |-> o.fs]
                          ELSE WriteMethod(entry, file_data, path, o.fs, fault, now)

\* Mutant: the files are truncated before the header and the payload are
\* checked.
TruncatedThenErr(kind, msg, f) ==
    [ret |-> ErrReturn(kind, msg),
     fs |-> [p \in DOMAIN f |->
                IF f[p].kind = "file" THEN [f[p] EXCEPT !.data = <<>>] ELSE f[p]]]

\* return Err(io::Error::new(kind, msg)) of the three checks: no call on the
\* filesystem has been made by then.
EarlyErr(kind, msg, f) == [ret |-> ErrReturn(kind, msg), fs |-> f]

\* zip_utils::extract_file: [ret, fs]. fault names the system call the
\* environment fails in this call, if any; now is the clock.
extract_file(entry, buffer, extract_to_dir, f, fault, now) ==
    LET off == entry.local_header_offset
    IN  IF LocalHeaderIncomplete(off, buffer)
        THEN EarlyErr("UnexpectedEof", "Incomplete local header", f)
        ELSE IF WGt(WAdd(off, Wide(4)), Wide(Len(buffer)))
        THEN [ret |-> PanicReturn, fs |-> f]
        ELSE LET offset == Narrow(off)
             IN  IF Slice(buffer, offset, offset + 4) # LOCAL_SIGNATURE
                 THEN EarlyErr("InvalidData", "Invalid local file header signature", f)
                 ELSE IF ~InBounds(buffer, offset + 26, offset + 28)
                         \/ ~InBounds(buffer, offset + 28, offset + 30)
                 THEN [ret |-> PanicReturn, fs |-> f]
                 ELSE LET data_start == DataStart(offset, buffer)
                          data_end == DataEnd(data_start, entry)
                      IN  IF DataExceedsBuffer(data_end, buffer)
                          THEN EarlyErr("UnexpectedEof", "File data exceeds buffer", f)
                          ELSE IF WGt(data_end, Wide(Len(buffer)))
                          THEN [ret |-> PanicReturn, fs |-> f]
                          ELSE ExtractTo(entry,
                                         Slice(buffer, data_start, Narrow(data_end)),
                                         extract_to_dir, f, fault, now)

----------------------------------------------------------------------------
(* Archive buffers the model feeds to the reader: well-formed archives in the
   layout the reader expects, every truncation of them and every single-byte
   change of them. *)

LE16(n) == <<n % 256, n \div 256>>
LE32(n) == LE16(n % 65536) \o LE16(n \div 65536)

\* A local file header (30 bytes), its name, its extra field and the payload.
MkLocal(name, extra, method, data) ==
    LOCAL_SIGNATURE \o Zeros(4) \o LE16(method) \o Zeros(8)
        \o LE32(Len(data)) \o LE32(Len(data)) \o LE16(Len(name)) \o LE16(Len(extra))
        \o name \o extra \o data

\* A central-directory file header (46 bytes) and its name, extra and comment.
MkCentral(name, extra, comment, method, csize, offset) ==
    DEFLATE_SIGNATURE \o Zeros(6) \o LE16(method) \o Zeros(8)
        \o LE32(csize) \o LE32(csize)
        \o LE16(Len(name)) \o LE16(Len(extra)) \o LE16(Len(comment))
        \o Zeros(8) \o LE32(offset) \o name \o extra \o comment

\* A raw deflate stream of one final stored block.
StoredBlock(data) == <<1>> \o LE16(Len(data)) \o LE16(65535 - Len(data)) \o data

Payload == [k \in 1..MaxPayload |-> 16 + k]
Junk(j) == [k \in 1..j |-> 80]

NameExe == <<97, 46, 101, 120, 101>>   \* "a.exe"
NameDir == <<100, 47>>                 \* "d/"
NameSub == <<100, 47, 114>>            \* "d/r"
NameD == <<100>>                       \* "d"
NameUp == <<46, 46, 47, 101>>          \* "../e"

\* One stored file.
ArchiveOne(j) ==
    Junk(j) \o MkLocal(NameExe, <<>>, 0, Payload)
        \o MkCentral(NameExe, <<>>, <<>>, 0, Len(Payload), j)

\* A directory and a stored file in it whose local extra field is longer than
\* the central one.
ArchiveDir(j) ==
    LET l1 == MkLocal(NameDir, <<>>, 0, <<>>)
        l2 == MkLocal(NameSub, <<1, 2>>, 0, Payload)
    IN  Junk(j) \o l1 \o l2
            \o MkCentral(NameDir, <<>>, <<>>, 0, 0, j)
            \o MkCentral(NameSub, <<>>, <<>>, 0, Len(Payload), j + Len(l1))

\* Two records, the first with the central signature inside its comment.
ArchiveComment(j) ==
    LET l1 == MkLocal(NameExe, <<>>, 0, Payload)
        l2 == MkLocal(NameD, <<>>, 0, Payload)
    IN  Junk(j) \o l1 \o l2
            \o MkCentral(NameExe, <<7>>, DEFLATE_SIGNATURE \o <<0, 0>>, 0, Len(Payload), j)
            \o MkCentral(NameD, <<>>, <<>>, 0, Len(Payload), j + Len(l1))

\* The central record in front of the local header and the payload.
ArchiveCentralFirst(j) ==
    LET c == MkCentral(NameExe, <<>>, <<>>, 0, Len(Payload), 0)
    IN  Junk(j) \o MkCentral(NameExe, <<>>, <<>>, 0, Len(Payload), j + Len(c))
            \o MkLocal(NameExe, <<>>, 0, Payload)

\* One deflated file.
ArchiveDeflate(j) ==
    LET z == StoredBlock(Payload)
    IN  Junk(j) \o MkLocal(NameExe, <<>>, 8, z)
            \o MkCentral(NameExe, <<>>, <<>>, 8, Len(z), j)

\* A file d/r and then a file d, where d is a directory by then.
ArchiveClash(j) ==
    LET l1 == MkLocal(NameSub, <<>>, 0, Payload)
        l2 == MkLocal(NameD, <<>>, 0, Payload)
    IN  Junk(j) \o l1 \o l2
            \o MkCentral(NameSub, <<>>, <<>>, 0, Len(Payload), j)
            \o MkCentral(NameD, <<>>, <<>>, 0, Len(Payload), j + Len(l1))

\* One stored file whose name steps out of the extraction directory.
ArchiveTraversal(j) ==
    Junk(j) \o MkLocal(NameUp, <<>>, 0, Payload)
        \o MkCentral(NameUp, <<>>, <<>>, 0, Len(Payload), j)

\* A directory entry that carries a payload and a method no extractor knows.
ArchiveOddDir(j) ==
    Junk(j) \o MkLocal(NameDir, <<>>, 9, Payload)
        \o MkCentral(NameDir, <<>>, <<>>, 9, Len(Payload), j)

BaseArchives ==
    UNION { { ArchiveOne(j), ArchiveDir(j), ArchiveComment(j),
              ArchiveCentralFirst(j), ArchiveDeflate(j), ArchiveClash(j),
              ArchiveTraversal(j), ArchiveOddDir(j) }
            : j \in 0..MaxJunk }

\* The values a single byte is changed to.
PokeBytes == {0, 8, 47, 255}

Poke(b, p, v) == [b EXCEPT ![p] = v]

ZipBuffers ==
    UNION { {Take(b, n) : n \in 0..Len(b)}
            \cup {Poke(b, p, v) : p \in 1..Len(b), v \in PokeBytes}
            : b \in BaseArchives }

----------------------------------------------------------------------------
(* Names of the filesystem layout. *)

Local == <<76, 111, 99, 97, 108>>            \* the LocalAppData folder
Utils == <<85, 116, 105, 108, 115>>          \* "Utils"
MyApp == <<77, 121, 65, 112, 112>>           \* "MyApp", an application name

\* get_local_appdata: <LocalAppData>\Utils
LocalAppDataUtils == <<Local, Utils>>

\* local_appdata.join(app_name)
AppDir(name) == PathJoin(LocalAppDataUtils, name)

----------------------------------------------------------------------------
(* The unzip of one buffer: unzip_file from the parse on, one step for the
   parse and one for each entry. *)

\* Mutant: without the flag the ERROR rows are left out as well.
add_quiet(lg, message_type, message) ==
    IF message_type \in {"DEBUG", "ERROR"} /\ ~DEBUG THEN lg
    ELSE Append(lg, [type |-> message_type, message |-> message])

\* add_message: one row, unless it is a DEBUG row and the flag is off. A
\* message is its format string followed by its arguments.
add_message(lg, message_type, message) ==
    IF message_type = "DEBUG" /\ ~DEBUG THEN lg
    ELSE Append(lg, [type |-> message_type, message |-> message])

\* The system call the environment fails in one extract_file call.
Faults == {"none", "create_dir", "open", "write"}

ExtractDir == AppDir(MyApp)

\* The extraction directory exists (unzip_file has created it) and holds a file
\* a.exe that an earlier installation left.
OldTree ==
    [p \in {Append(ExtractDir, NameExe)} |-> FileNode(<<99, 99, 99, 99>>, 0)]
        @@ [p \in Prefixes(ExtractDir) |-> DirNode]

\* The worker of run_installation is not running.
\* No second process, no comparison, no window, no name to humanize.
ExtraIdle ==
    /\ peer = <<>>
    /\ twin = <<>>
    /\ listview = <<>>
    /\ ui = <<>>
    /\ wk = <<>>
    /\ new_name = <<>>

RunIdle ==
    /\ pc = "off"
    /\ app_name = <<>>
    /\ running = FALSE
    /\ shell_ok = TRUE
    /\ current_exe = <<>>
    /\ copied_zip_path = <<>>
    /\ exe_path = <<>>
    /\ EXE_PATH_TO_RUN = <<>>
    /\ hist = <<>>

\* The start-up code is not running.
MainIdle ==
    /\ args = <<>>
    /\ mpc = "off"
    /\ APP_NAME = <<>>
    /\ worker = <<>>

ZipInit ==
    /\ RunIdle
    /\ ExtraIdle
    /\ MainIdle
    /\ DEBUG = FALSE
    /\ log = <<>>
    /\ zbuf \in ZipBuffers
    /\ zpc = "parse"
    /\ zret = [tag |-> "None", kind |-> "", msg |-> "", entries |-> <<>>]
    /\ zscan = [recs |-> <<>>, scan |-> <<>>]
    /\ zk = 0
    /\ zlast = [entry |-> <<>>, fault |-> "none", before |-> <<>>, ret |-> NoReturn,
                rets |-> <<>>]
    /\ fs = OldTree

\* let entries = match zip_utils::parse_central_directory(&buffer)
ParseBuffer ==
    /\ zpc = "parse"
    /\ LET st == parse_central_directory(zbuf)
       IN  /\ zret' = ParseResult(st)
           /\ zscan' = [recs |-> st.recs, scan |-> st.scan]
           /\ zpc' = IF st.ret.tag = "Ok" THEN "extract" ELSE "done"
           /\ log' = IF st.ret.tag = "Err"
                      THEN add_message(log, "ERROR",
                               <<"Failed to parse zip file: {}", st.ret.msg>>)
                      ELSE log
    /\ UNCHANGED <<extraVars, zbuf, zk, zlast, fs, runVars, DEBUG, mainVars>>

\* Mutant: the loop stops at the first entry that fails.
StopAtError(ret) == IF ret.tag \in {"Panic", "Err"} THEN "done" ELSE "extract"

\* Where the loop stands after extract_file returned ret: an error is reported
\* and the loop goes on; a panic ends the thread.
AfterExtract(ret) == IF ret.tag = "Panic" THEN "done" ELSE "extract"

\* The rows one turn of the loop adds for entry when extract_file returned ret.
EntryRows(lg, entry, ret) ==
    IF ret.tag = "Err"
    THEN add_message(add_message(lg, "INFO", <<"Extracting file: {}", entry.file_name>>),
                     "ERROR", <<"Failed to extract {}: {}", entry.file_name>>)
    ELSE add_message(lg, "INFO", <<"Extracting file: {}", entry.file_name>>)

\* extract_file has returned r for entry under the fault chosen.
ExtractReturned(entry, r, fault, hit) ==
    /\ fs' = r.fs
    /\ zlast' = [entry |-> entry, fault |-> IF hit THEN fault ELSE "none",
                 before |-> fs, ret |-> r.ret, rets |-> Append(zlast.rets, r.ret)]
    /\ log' = EntryRows(log, entry, r.ret)
    /\ zk' = zk + 1
    /\ zpc' = AfterExtract(r.ret)

\* One turn of for entry in &entries: extract_file(entry, &buffer, &extract_to_dir)
ExtractEntry ==
    /\ zpc = "extract"
    /\ zk < Len(zret.entries)
    /\ \E fault \in Faults :
          ExtractReturned(zret.entries[zk + 1],
                          extract_file(zret.entries[zk + 1], zbuf, ExtractDir, fs, fault, 0),
                          fault,
                          extract_file(zret.entries[zk + 1], zbuf, ExtractDir, fs, fault, 0)
                              # extract_file(zret.entries[zk + 1], zbuf, ExtractDir, fs,
                                             "none", 0))
    /\ UNCHANGED <<extraVars, zbuf, zret, zscan, runVars, DEBUG, mainVars>>

\* The loop ends.
FinishUnzip ==
    /\ zpc = "extract"
    /\ zk = Len(zret.entries)
    /\ zpc' = "done"
    /\ log' = add_message(log, "INFO", <<"Successfully unzipped to '{:?}'", ExtractDir>>)
    /\ UNCHANGED <<extraVars, zbuf, zret, zscan, zk, zlast, fs, runVars, DEBUG, mainVars>>

ZipNext == ParseBuffer \/ ExtractEntry \/ FinishUnzip

SpecZip == ZipInit /\ [][ZipNext]_vars

----------------------------------------------------------------------------
(* Properties of the reader, stated on the buffer alone. *)

\* The central-directory signature 50 4B 01 02 stands at offset i.
SigAt(buffer, i) ==
    i + 4 <= Len(buffer) /\ SubSeq(buffer, i + 1, i + 4) = <<80, 75, 1, 2>>

HasCentralSignature(buffer) == \E i \in 0..Len(buffer) : SigAt(buffer, i)

\* The first signature at or after from, or -1.
NextMatch(buffer, from) ==
    IF \E j \in from..Len(buffer) : SigAt(buffer, j)
    THEN CHOOSE j \in from..Len(buffer) :
            SigAt(buffer, j) /\ \A h \in from..(j - 1) : ~SigAt(buffer, h)
    ELSE -1

\* The end of the record at i: 46 bytes and the name, extra and comment lengths
\* at i+28, i+30, i+32.
RecordEnd(buffer, i) ==
    i + 46 + (buffer[i + 29] + 256 * buffer[i + 30])
           + (buffer[i + 31] + 256 * buffer[i + 32])
           + (buffer[i + 33] + 256 * buffer[i + 34])

RecordTruncated(buffer, i) ==
    i + 46 > Len(buffer) \/ RecordEnd(buffer, i) > Len(buffer)

\* The matches a left-to-right scan reaches when it resumes right after each
\* complete record and stops at a truncated one.
RECURSIVE Reached(_, _)
Reached(buffer, from) ==
    LET m == NextMatch(buffer, from)
    IN  IF m = -1 THEN <<>>
        ELSE IF RecordTruncated(buffer, m) THEN <<m>>
        ELSE <<m>> \o Reached(buffer, RecordEnd(buffer, m))

Parsed == zpc # "parse"

\* C6: parse and extract never take a slice outside the buffer: every call
\* ends in a returned value or a returned error, never in a panic.
C6_NoOutOfBoundsRead == zret.tag # "Panic" /\ zlast.ret.tag # "Panic"

\* C6 witness: extract_file has refused an entry whose payload would end
\* beyond the buffer.
C6_Witness ==
    /\ zk > 0
    /\ zlast.ret.tag = "Err"
    /\ zlast.ret.msg = "File data exceeds buffer"

\* C7: a buffer without the central-directory signature parses to Ok with an
\* empty entry list.
C7_NoSignatureEmptyList ==
    (Parsed /\ ~HasCentralSignature(zbuf)) => (zret.tag = "Ok" /\ zret.entries = <<>>)

\* C7 witness: a buffer longer than a header, with a local header in it and no
\* central signature, has been parsed.
C7_Witness ==
    /\ Parsed
    /\ ~HasCentralSignature(zbuf)
    /\ Len(zbuf) > 46
    /\ zret.tag = "Ok"

\* C8: parse returns the truncated-header error exactly when the scan reaches
\* a signature whose 46-byte header or whose name/extra/comment trailer would
\* end beyond the buffer, and then it returns no entries.
C8_TruncatedHeaderExactly ==
    Parsed =>
        LET r == Reached(zbuf, 0)
        IN  /\ (zret.tag = "Err") <=> (r # <<>> /\ RecordTruncated(zbuf, Last(r)))
            /\ (zret.tag = "Err") => (zret.kind = "UnexpectedEof" /\ zret.entries = <<>>)

\* C8 witness: the error came after an earlier record had been consumed.
C8_Witness == Parsed /\ zret.tag = "Err" /\ Len(zscan.recs) >= 1

\* C9: on success the entries are those of the records a left-to-right scan
\* reaches when it resumes after each consumed header and trailer, in
\* strictly increasing offset order.
C9_EntriesInScanOrder ==
    (Parsed /\ zret.tag = "Ok") =>
        LET r == Reached(zbuf, 0)
        IN  /\ zscan.recs = r
            /\ Len(zret.entries) = Len(r)
            /\ \A k \in 1..Len(r) : zret.entries[k] = CentralEntry(r[k], zbuf)
            /\ \A k \in 1..(Len(r) - 1) : r[k + 1] >= RecordEnd(zbuf, r[k])

\* C9 witness: two entries were returned and a signature inside a consumed
\* trailer produced none.
C9_Witness ==
    /\ Parsed
    /\ zret.tag = "Ok"
    /\ Len(zret.entries) = 2
    /\ \E i \in 0..Len(zbuf) :
          /\ SigAt(zbuf, i)
          /\ \A k \in 1..Len(zscan.recs) : zscan.recs[k] # i

\* The local header of entry e is complete and carries the local signature.
LocalHeaderValid(buffer, e) ==
    /\ ~WGt(WAdd(e.local_header_offset, Wide(30)), Wide(Len(buffer)))
    /\ LET o == Narrow(e.local_header_offset)
       IN  SubSeq(buffer, o + 1, o + 4) = <<80, 75, 3, 4>>

\* Where the payload of e starts: after the 30-byte local header and the name
\* and extra field whose lengths stand at +26 and +28 of the local header.
PayloadStart(buffer, e) ==
    LET o == Narrow(e.local_header_offset)
    IN  o + 30 + (buffer[o + 27] + 256 * buffer[o + 28])
               + (buffer[o + 29] + 256 * buffer[o + 30])

PayloadValid(buffer, e) ==
    /\ LocalHeaderValid(buffer, e)
    /\ ~WGt(WAdd(Wide(PayloadStart(buffer, e)), e.compressed_size), Wide(Len(buffer)))

PayloadBytes(buffer, e) ==
    SubSeq(buffer, PayloadStart(buffer, e) + 1,
           PayloadStart(buffer, e) + Narrow(e.compressed_size))

\* destination_dir/name
TargetPath(e) == Resolve(PathJoin(ExtractDir, e.file_name))

\* The last extract_file call was for a stored entry with a non-directory
\* name and valid local header and payload bounds.
StoredCase ==
    /\ zk > 0
    /\ zlast.entry.compression_method = 0
    /\ ~IsDirectoryName(zlast.entry.file_name)
    /\ PayloadValid(zbuf, zlast.entry)

HoldsPayload(f, e) ==
    IsFile(f, TargetPath(e)) /\ f[TargetPath(e)].data = PayloadBytes(zbuf, e)

----------------------------------------------------------------------------
(* install_utils.rs: names, the log and the system calls of the workflow. *)

AppInstaller == <<65, 112, 112, 73, 110, 115, 116, 97, 108, 108, 101, 114>>
AppInstallerExe == <<65, 112, 112, 73, 110, 115, 116, 97, 108, 108, 101, 114, 46, 101, 120, 101>>

\* REMOTE_DIR, C:\dev\apps
REMOTE_DIR == <<<<100, 101, 118>>, <<97, 112, 112, 115>>>>

\* The folder CSIDL_STARTMENU names.
StartMenu == <<<<82, 111, 97, 109, 105, 110, 103>>, <<83, 116, 97, 114, 116, 32, 77, 101, 110, 117>>>>

\* <LocalAppData>\Microsoft\Windows\Start Menu\Programs
LocalStartMenu == <<Local, <<77, 105, 99, 114, 111, 115, 111, 102, 116>>, <<87, 105, 110, 100, 111, 119, 115>>, <<83, 116, 97, 114, 116, 32, 77, 101, 110, 117>>, <<80, 114, 111, 103, 114, 97, 109, 115>>>>

\* local_appdata.join("AppInstaller").join("AppInstaller.exe")
LocalInstallerPath == <<Local, Utils, AppInstaller, AppInstallerExe>>

\* Mutant: text files are taken for archives.
TxtExt == <<116, 120, 116>>

ZipExt == <<122, 105, 112>>
ExeExt == <<101, 120, 101>>

\* Option values: <<>> is None and <<x>> is Some(x).
None == <<>>
Some(x) == <<x>>

\* str::contains
HasSub(text, sub) ==
    \E k \in 0..(Len(text) - Len(sub)) : SubSeq(text, k + 1, k + Len(sub)) = sub

\* p.to_str().unwrap_or("").contains("Local")
ContainsLocal(p) == \E k \in 1..Len(p) : HasSub(p[k], Local)

\* char::is_uppercase and char::is_lowercase on the letters of the model.
IsUpper(c) == c \in 65..90
IsLower(c) == c \in 97..122

\* Mutant: a space goes in front of every uppercase letter that follows
\* anything but an uppercase letter.
RECURSIVE AddSpacesAfterAny(_, _)
AddSpacesAfterAny(name, last_char_was_lowercase) ==
    IF name = <<>> THEN <<>>
    ELSE LET c == Head(name)
         IN  (IF IsUpper(c) /\ last_char_was_lowercase THEN <<32>> ELSE <<>>)
                 \o <<c>> \o AddSpacesAfterAny(Tail(name), ~IsUpper(c))

\* for c in app_name.chars(): the rest of the loop over name.
RECURSIVE AddSpacesFrom(_, _)
AddSpacesFrom(name, last_char_was_lowercase) ==
    IF name = <<>> THEN <<>>
    ELSE LET c == Head(name)
         IN  (IF IsUpper(c) /\ last_char_was_lowercase THEN <<32>> ELSE <<>>)
                 \o <<c>> \o AddSpacesFrom(Tail(name), IsLower(c))

add_spaces(name) == AddSpacesFrom(name, FALSE)

\* format!("{}.lnk", shortcut_name)
LnkName(shortcut_name) == shortcut_name \o <<46, 108, 110, 107>>

\* PathBuf::with_extension
WithExtension(p, ext) ==
    LET name == Last(p)
        d == LastDot(name, Len(name))
        stem == IF d <= 1 THEN name ELSE Take(name, d - 1)
    IN  Append(Front(p), stem \o <<46>> \o ext)

\* A shortcut file whose link target is target.
LnkNode(target) == [kind |-> "file", data |-> <<76>>, mtime |-> 0, target |-> target]

\* The entries fs::read_dir yields for dir, in no particular order.
Children(f, dir) == {p \in DOMAIN f : Len(p) = Len(dir) + 1 /\ IsPrefix(dir, p)}

RECURSIVE Perms(_)
Perms(S) ==
    IF S = {} THEN {<<>>}
    ELSE UNION { {<<x>> \o s : s \in Perms(S \ {x})} : x \in S }

\* The orders in which read_dir may enumerate dir.
Orders(f, dir) == Perms(Children(f, dir))

\* fs::remove_file: [ok, fs]
remove_file(f, path, env) ==
    IF IsFile(f, path) /\ env
    THEN [ok |-> TRUE, fs |-> Restrict(f, DOMAIN f \ {path})]
    ELSE [ok |-> FALSE, fs |-> f]

\* fs::remove_dir_all: [ok, fs]
remove_dir_all(f, dir, env) ==
    IF IsDir(f, dir) /\ env
    THEN [ok |-> TRUE, fs |-> Restrict(f, DOMAIN f \ Subtree(f, dir))]
    ELSE [ok |-> FALSE, fs |-> f]

\* fs::rename of a file: it replaces a file at the new name, not a directory.
rename(f, from, to, env) ==
    IF IsFile(f, from) /\ ~IsDir(f, to) /\ IsDir(f, Front(to)) /\ env
    THEN [ok |-> TRUE,
          fs |-> [q \in {to} |-> f[from]] @@ Restrict(f, DOMAIN f \ {from})]
    ELSE [ok |-> FALSE, fs |-> f]

\* get_local_appdata: [some, fs, log]; the path is LocalAppDataUtils.
get_local_appdata(f, lg, env) ==
    IF ~shell_ok THEN [some |-> FALSE, fs |-> f, log |-> lg]
    ELSE IF Exists(f, LocalAppDataUtils) THEN [some |-> TRUE, fs |-> f, log |-> lg]
    ELSE LET d == create_dir_all(f, LocalAppDataUtils, env)
         IN  IF d.ok THEN [some |-> TRUE, fs |-> d.fs, log |-> lg]
             ELSE [some |-> FALSE, fs |-> f,
                   log |-> add_message(lg, "ERROR", <<"Failed to create directory">>)]

\* Mutant: an entry as new as the kept one replaces it.
LaterOrSame(modified, kept) == modified >= kept

\* modified > newest_file.as_ref().unwrap().1
Later(modified, kept) == modified > kept

\* Mutant: the loop keeps the oldest .zip file.
RECURSIVE OldestFrom(_, _, _)
OldestFrom(f, order, newest_file) ==
    IF order = <<>> THEN newest_file
    ELSE LET path == Head(order)
             take == /\ IsFile(f, path)
                     /\ Extension(path) = ZipExt
                     /\ (newest_file = None \/ f[path].mtime < f[newest_file[1]].mtime)
         IN  OldestFrom(f, Tail(order), IF take THEN Some(path) ELSE newest_file)

\* The loop over the directory entries that keeps the newest .zip file: a later
\* entry replaces the kept one only when its time is strictly greater.
RECURSIVE NewestFrom(_, _, _)
NewestFrom(f, order, newest_file) ==
    IF order = <<>> THEN newest_file
    ELSE LET path == Head(order)
             take == /\ IsFile(f, path)
                     /\ Extension(path) = ZipExt
                     /\ (newest_file = None \/ Later(f[path].mtime, f[newest_file[1]].mtime))
         IN  NewestFrom(f, Tail(order), IF take THEN Some(path) ELSE newest_file)

\* copy_with_progress: [ok, fs]; when the copy breaks off, the destination has
\* been created and holds nothing.
copy_with_progress(f, from, to, env) ==
    IF ~IsFile(f, from) THEN [ok |-> FALSE, fs |-> f]
    ELSE LET o == OpenTruncate(f, to, TRUE, 0)
         IN  IF ~o.ok \/ ~env THEN [ok |-> FALSE, fs |-> o.fs]
             ELSE WriteAll(o.fs, to, f[from].data, TRUE, 0)

----------------------------------------------------------------------------
(* install_utils.rs: the functions run_installation calls. Each takes the
   filesystem and the log and gives back both; a function's body is cut where
   it uses the result of a call, the result being handed to the next piece. *)

\* copy_latest_zip from the match on the copy's result.
CopyResult(r, lg, dest_path) ==
    IF r.ok
    THEN [ret |-> Some(dest_path), fs |-> r.fs,
          log |-> add_message(lg, "DEBUG",
                    <<"Copied latest version {:?} to {:?}", dest_path>>)]
    ELSE [ret |-> None, fs |-> r.fs,
          log |-> add_message(lg, "ERROR", <<"Error copying file: {}">>)]

\* copy_latest_zip from if let Some(local_appdata) = get_local_appdata(..).
CopyNewest(a, newest_file_path, env) ==
    IF ~a.some
    THEN [ret |-> None, fs |-> a.fs,
          log |-> add_message(a.log, "ERROR",
                    <<"Could not find LOCALAPPDATA directory.">>)]
    ELSE CopyResult(copy_with_progress(a.fs, newest_file_path,
                        Append(LocalAppDataUtils, Last(newest_file_path)), env),
                    a.log, Append(LocalAppDataUtils, Last(newest_file_path)))

\* copy_latest_zip from if let Some((newest_file_path, _)) = newest_file.
CopyFound(f, lg, newest_file, source_dir_path, env) ==
    IF newest_file = None
    THEN [ret |-> None, fs |-> f,
          log |-> add_message(lg, "ERROR",
                    <<"No .zip files found in {:?}", source_dir_path>>)]
    ELSE CopyNewest(get_local_appdata(f,
                        add_message(lg, "DEBUG",
                            <<"Found latest zip file: {:?}", newest_file[1]>>),
                        env),
                    newest_file[1], env)

\* copy_latest_zip: [ret, fs, log]; order is the enumeration of the source
\* directory, env whether the system lets this call create and copy.
copy_latest_zip(f, lg, name, order, env) ==
    LET source_dir_path == PathJoin(REMOTE_DIR, name)
        lg1 == add_message(lg, "DEBUG",
                           <<"Searching for zip files in {:?}", source_dir_path>>)
    IN  IF ~IsDir(f, source_dir_path)
        THEN [ret |-> None, fs |-> f,
              log |-> add_message(lg1, "ERROR",
                        <<"Source directory not found or unreadable: {:?}: {}",
                          source_dir_path>>)]
        ELSE CopyFound(f, lg1, NewestFrom(f, order, None), source_dir_path, env)

\* The system call the environment fails in one unzip_file call: one of the
\* function's own (mkdir, open_zip, read_zip) or one of an extract_file call.
UnzipFaults == {"mkdir", "open_zip", "read_zip"} \cup Faults

RECURSIVE UnzipEntries(_, _, _, _, _, _, _, _)

\* The body of for entry in &entries after extract_file returned r.
Extracted(r, entries, k, buffer, extract_to_dir, lg, fault, at) ==
    IF r.ret.tag = "Panic" THEN [fs |-> r.fs, log |-> lg, panic |-> TRUE]
    ELSE UnzipEntries(entries, k + 1, buffer, extract_to_dir, r.fs,
             IF r.ret.tag = "Err"
             THEN add_message(lg, "ERROR",
                      <<"Failed to extract {}: {}", entries[k].file_name>>)
             ELSE lg,
             fault, at)

\* for entry in &entries, from entry k on: [fs, log, panic]. The fault hits the
\* extract_file call of entry number at.
UnzipEntries(entries, k, buffer, extract_to_dir, f, lg, fault, at) ==
    IF k > Len(entries) THEN [fs |-> f, log |-> lg, panic |-> FALSE]
    ELSE Extracted(extract_file(entries[k], buffer, extract_to_dir, f,
                       IF k = at /\ fault \in Faults THEN fault ELSE "none", 0),
                   entries, k, buffer, extract_to_dir,
                   add_message(lg, "INFO", <<"Extracting file: {}", entries[k].file_name>>),
                   fault, at)

UnzipFail(g, lg, message) ==
    [fs |-> g, log |-> add_message(lg, "ERROR", message), panic |-> FALSE]

\* unzip_file after the loop.
Unzipped(c, extract_to_dir) ==
    IF c.panic THEN c
    ELSE [fs |-> c.fs, panic |-> FALSE,
          log |-> add_message(c.log, "INFO",
                    <<"Successfully unzipped to '{:?}'", extract_to_dir>>)]

\* unzip_file from the match on parse_central_directory's result.
UnzipParsed(p, buffer, extract_to_dir, g, lg, fault, at) ==
    IF p.tag = "Panic" THEN [fs |-> g, log |-> lg, panic |-> TRUE]
    ELSE IF p.tag = "Err" THEN UnzipFail(g, lg, <<"Failed to parse zip file: {}", p.msg>>)
    ELSE Unzipped(UnzipEntries(p.entries, 1, buffer, extract_to_dir, g, lg, fault, at),
                  extract_to_dir)

\* unzip_file from File::open(zip_file).
UnzipOpen(d, lg, zip_file, extract_to_dir, fault, at) ==
    IF ~d.ok
    THEN UnzipFail(d.fs, lg, <<"Failed to create directory {:?}: {}", extract_to_dir>>)
    ELSE IF ~IsFile(d.fs, zip_file) \/ fault = "open_zip"
    THEN UnzipFail(d.fs, lg, <<"Unable to open zip file: {}">>)
    ELSE IF fault = "read_zip"
    THEN UnzipFail(d.fs, lg, <<"Unable to read zip file: {}">>)
    ELSE UnzipParsed(ParseResult(parse_central_directory(d.fs[zip_file].data)),
                     d.fs[zip_file].data, extract_to_dir, d.fs, lg, fault, at)

\* unzip_file from if let Some(local_appdata) = get_local_appdata(..).
UnzipIn(a, zip_file, name, fault, at) ==
    IF ~a.some THEN UnzipFail(a.fs, a.log, <<"Could not find LOCALAPPDATA to unzip.">>)
    ELSE UnzipOpen(create_dir_all(a.fs, AppDir(name), fault # "mkdir"),
                   a.log, zip_file, AppDir(name), fault, at)

\* unzip_file: [fs, log, panic]
unzip_file(f, lg, zip_file, name, fault, at) ==
    UnzipIn(get_local_appdata(f, lg, TRUE), zip_file, name, fault, at)

\* Mutant: the loop returns the last executable of the enumeration.
RECURSIVE LastExe(_, _)
LastExe(f, order) ==
    IF order = <<>> THEN None
    ELSE IF IsFile(f, Last(order)) /\ Extension(Last(order)) = ExeExt
    THEN Some(Last(order))
    ELSE LastExe(f, Front(order))

\* The loop of find_executable over the entries in enumeration order.
RECURSIVE FirstExe(_, _)
FirstExe(f, order) ==
    IF order = <<>> THEN None
    ELSE IF IsFile(f, Head(order)) /\ Extension(Head(order)) = ExeExt
    THEN Some(Head(order))
    ELSE FirstExe(f, Tail(order))

\* Mutant: the executable is taken to be a.exe without a look at the folder.
AssumedExecutable(f, dir, order) == Some(Append(dir, NameExe))

\* find_executable: None when the directory cannot be read.
find_executable(f, dir, order) == IF IsDir(f, dir) THEN FirstExe(f, order) ELSE None

\* get_start_menu_paths
get_start_menu_paths(f) ==
    (IF shell_ok THEN <<StartMenu>> ELSE <<>>)
        \o (IF shell_ok /\ Exists(f, LocalStartMenu) THEN <<LocalStartMenu>> ELSE <<>>)

\* The loop of find_shortcut over the start-menu folders: the first shortcut
\* file that parses and has a target with a parent.
RECURSIVE FindShortcutIn(_, _, _)
FindShortcutIn(f, paths, shortcut_name) ==
    IF paths = <<>> THEN None
    ELSE LET shortcut_path == PathJoin(Head(paths), LnkName(shortcut_name))
         IN  IF IsFile(f, shortcut_path) /\ f[shortcut_path].target # <<>>
             THEN Some([shortcut_path |-> shortcut_path,
                        target_dir |-> Front(f[shortcut_path].target)])
             ELSE FindShortcutIn(f, Tail(paths), shortcut_name)

find_shortcut(f, shortcut_name) ==
    FindShortcutIn(f, get_start_menu_paths(f), shortcut_name)

\* Mutant: the link file points at the folder of the target.
LinkToFolder(f, path, target, env) ==
    IF path = <<>> \/ IsDir(f, path) \/ ~IsDir(f, Front(path)) \/ ~env
    THEN [ok |-> FALSE, fs |-> f]
    ELSE [ok |-> TRUE, fs |-> [q \in {path} |-> LnkNode(Front(target))] @@ f]

\* ShellLink::create_lnk: [ok, fs]
create_lnk(f, path, target, env) ==
    IF path = <<>> \/ IsDir(f, path) \/ ~IsDir(f, Front(path)) \/ ~env
    THEN [ok |-> FALSE, fs |-> f]
    ELSE [ok |-> TRUE, fs |-> [q \in {path} |-> LnkNode(target)] @@ f]

\* The start-menu folder create_shortcut picks: the first whose text contains
\* "Local", else the first.
PickStartMenu(paths) ==
    IF \E k \in 1..Len(paths) : ContainsLocal(paths[k])
    THEN paths[CHOOSE k \in 1..Len(paths) :
                  ContainsLocal(paths[k]) /\ \A j \in 1..(k - 1) : ~ContainsLocal(paths[j])]
    ELSE paths[1]

\* create_shortcut from ShellLink::new(executable_path); r is what removing an
\* existing shortcut file gave.
LinkTo(r, lg, shortcut_path, executable_path, env) ==
    LET lg1 == IF r.ok THEN lg
               ELSE add_message(lg, "ERROR", <<"Failed to delete existing shortcut: {}">>)
    IN  IF ~Exists(r.fs, executable_path)
        THEN [fs |-> r.fs,
              log |-> add_message(lg1, "ERROR", <<"Failed to create shell link: {}">>)]
        ELSE IF ~create_lnk(r.fs, shortcut_path, executable_path, env).ok
        THEN [fs |-> r.fs,
              log |-> add_message(lg1, "ERROR", <<"Failed to create shortcut: {}">>)]
        ELSE [fs |-> create_lnk(r.fs, shortcut_path, executable_path, env).fs,
              log |-> add_message(lg1, "DEBUG", <<"Shortcut created at {:?}", shortcut_path>>)]

\* create_shortcut from if shortcut_path.exists().
ShortcutAt(f, lg, shortcut_path, executable_path, env) ==
    LinkTo(IF Exists(f, shortcut_path) THEN remove_file(f, shortcut_path, env)
           ELSE [ok |-> TRUE, fs |-> f],
           lg, shortcut_path, executable_path, env)

\* create_shortcut: [fs, log]
create_shortcut(f, lg, executable_path, shortcut_name, env) ==
    IF get_start_menu_paths(f) = <<>>
    THEN [fs |-> f, log |-> add_message(lg, "ERROR", <<"Could not find Start Menu path.">>)]
    ELSE ShortcutAt(f, lg,
                    PathJoin(PickStartMenu(get_start_menu_paths(f)),
                             LnkName(add_spaces(shortcut_name))),
                    executable_path, env)

\* if dir.exists() { remove_dir_all(dir) } with its two messages: [fs, log]
DeleteIfExists(f, lg, dir, env) ==
    IF ~Exists(f, dir) THEN [fs |-> f, log |-> lg]
    ELSE IF remove_dir_all(f, dir, env).ok
    THEN [fs |-> remove_dir_all(f, dir, env).fs,
          log |-> add_message(lg, "DEBUG", <<"Deleted existing directory at {:?}", dir>>)]
    ELSE [fs |-> f,
          log |-> add_message(lg, "ERROR", <<"Failed to delete directory '{:?}': {}", dir>>)]

\* Mutant: the shortcut file is left where it is.
KeepShortcut(d, shortcut_path, env) == [fs |-> d.fs, log |-> d.log]

\* uninstall_application after the directory of the shortcut's target is dealt
\* with: fs::remove_file(&shortcut_path) and its two messages.
DeleteShortcut(d, shortcut_path, env) ==
    IF remove_file(d.fs, shortcut_path, env).ok
    THEN [fs |-> remove_file(d.fs, shortcut_path, env).fs,
          log |-> add_message(d.log, "DEBUG", <<"Deleted shortcut at {:?}", shortcut_path>>)]
    ELSE [fs |-> d.fs,
          log |-> add_message(d.log, "ERROR",
                    <<"Failed to delete shortcut '{:?}': {}", shortcut_path>>)]

\* Mutant: without a shortcut nothing is deleted.
KeepDefault(a, name, env) == [fs |-> a.fs, log |-> a.log]

\* uninstall_application when no shortcut is found: the default location.
DeleteDefault(a, name, env) ==
    IF ~a.some THEN [fs |-> a.fs, log |-> a.log]
    ELSE DeleteIfExists(a.fs, a.log, AppDir(name), env)

\* uninstall_application from the match on find_shortcut's result.
UninstallFound(found, f, lg, name, envDir, envFile) ==
    IF found # None
    THEN DeleteShortcut(DeleteIfExists(f, lg, found[1].target_dir, envDir),
                        found[1].shortcut_path, envFile)
    ELSE DeleteDefault(
             get_local_appdata(f,
                 add_message(lg, "DEBUG",
                     <<"No existing shortcut found. Checking default location.">>),
                 envDir),
             name, envDir)

\* uninstall_application: [fs, log]; envDir and envFile are whether the system
\* lets the directory tree and the shortcut file be deleted.
uninstall_application(f, lg, name, envDir, envFile) ==
    UninstallFound(find_shortcut(f, add_spaces(name)), f,
                   add_message(lg, "DEBUG",
                       <<"Attempting to uninstall application: {}", name>>),
                   name, envDir, envFile)

----------------------------------------------------------------------------
(* The machines the installer is started on. *)

\* Largest modification time of a file the run finds.
MaxTime == 2
\* Largest entry number the environment fails an extract_file call at.
MaxEntries == 2

Times == 1..MaxTime

NameExeB == <<98, 46, 101, 120, 101>>
NameDll == <<111, 46, 100, 108, 108>>

\* An archive of one stored file.
ArchiveOf(name, data) ==
    MkLocal(name, <<>>, 0, data) \o MkCentral(name, <<>>, <<>>, 0, Len(data), 0)

\* Two stored files, a.exe and b.exe.
ArchiveTwoExe ==
    LET l1 == MkLocal(NameExe, <<>>, 0, Payload)
        l2 == MkLocal(NameExeB, <<>>, 0, Payload)
    IN  l1 \o l2 \o MkCentral(NameExe, <<>>, <<>>, 0, Len(Payload), 0)
           \o MkCentral(NameExeB, <<>>, <<>>, 0, Len(Payload), Len(l1))

\* The new installer, as the distribution channel holds it.
InstallerArchive == ArchiveOf(AppInstallerExe, Payload)

Tree(dirs, files) ==
    [p \in UNION {Prefixes(d) : d \in dirs} |-> DirNode] @@ files

OneFile(path, node) == [p \in {path} |-> node] @@ [p \in Prefixes(Front(path)) |-> DirNode]

\* The folders every machine has.
BaseTree == Tree({<<Local>>, StartMenu, REMOTE_DIR}, <<>>)

\* Where the installer runs from when it is not the local installer.
SetupExe == <<<<83, 104, 97, 114, 101>>, <<83, 101, 116, 117, 112, 46, 101, 120, 101>>>>

OldExe == <<1>>

\* The remote folder of the installer: none, or one archive for each of at most
\* two times.
InstallerSource == PathJoin(REMOTE_DIR, AppInstaller)

InstallerZip(t) == Append(InstallerSource, <<105, 48 + t>> \o <<46, 122, 105, 112>>)

RemoteInstallers ==
    {[dir |-> FALSE, times |-> {}]}
        \cup {[dir |-> TRUE, times |-> T] : T \in {S \in SUBSET Times : Cardinality(S) <= 2}}

RemoteInstallerTree(R) ==
    IF ~R.dir THEN <<>>
    ELSE [p \in {InstallerZip(t) : t \in R.times} |->
             FileNode(InstallerArchive, CHOOSE t \in R.times : p = InstallerZip(t))]
         @@ Tree({InstallerSource}, <<>>)

\* The installer on the machine: "fresh" (no Utils folder), "utils" (the folder
\* and no local installer), "local" (the local installer is the one running),
\* "aside" (the same, and an earlier update left a renamed-aside file),
\* "elsewhere" (a local installer exists and another executable is running).
InstallerKinds == {"fresh", "utils", "local", "aside", "elsewhere"}

CurrentExe(kind) == IF kind \in {"local", "aside"} THEN LocalInstallerPath ELSE SetupExe

InstallerTree(kind, t) ==
    OneFile(CurrentExe(kind), FileNode(OldExe, t))
    @@ (IF kind = "utils" THEN Tree({LocalAppDataUtils}, <<>>) ELSE <<>>)
    @@ (IF kind = "elsewhere" THEN OneFile(LocalInstallerPath, FileNode(OldExe, 1))
        ELSE <<>>)
    @@ (IF kind = "aside"
        THEN OneFile(WithExtension(LocalInstallerPath, <<65, 112, 112, 73, 110, 115, 116, 97, 108, 108, 101, 114, 46, 111, 108, 100>>),
                     FileNode(<<0>>, 0))
        ELSE <<>>)

\* The earlier installation of the application: "none", "dir" (the default
\* folder and no shortcut), "linked" (the folder and a shortcut to its a.exe),
\* "moved" (the shortcut leads to a folder elsewhere), "broken" (the shortcut
\* file is not a link).
Previous == {"none", "dir", "linked", "moved", "broken"}

OtherDir == <<<<79, 116, 104, 101, 114>>, MyApp>>

ShortcutPath(name) == PathJoin(StartMenu, LnkName(add_spaces(name)))

OldInstall(dir) ==
    [p \in {Append(dir, NameExe), Append(dir, NameDll)} |-> FileNode(<<99, 99, 99, 99>>, 0)]
        @@ Tree({dir}, <<>>)

PreviousTree(prev) ==
    IF prev = "none" THEN <<>>
    ELSE OldInstall(AppDir(MyApp))
         @@ (IF prev = "linked"
             THEN OneFile(ShortcutPath(MyApp), LnkNode(Append(AppDir(MyApp), NameExe)))
             ELSE IF prev = "moved"
             THEN OneFile(ShortcutPath(MyApp), LnkNode(Append(OtherDir, NameExe)))
                  @@ OldInstall(OtherDir)
             ELSE IF prev = "broken"
             THEN OneFile(ShortcutPath(MyApp), FileNode(<<0>>, 0))
             ELSE <<>>)

\* The remote folder of the application.
TargetSource == PathJoin(REMOTE_DIR, MyApp)
ZipX == Append(TargetSource, <<120, 46, 122, 105, 112>>)
ZipY == Append(TargetSource, <<121, 46, 122, 105, 112>>)
ZipW == Append(TargetSource, <<119, 46, 122, 105, 112>>)
TxtY == Append(TargetSource, <<121, 46, 116, 120, 116>>)

\* An archive whose only executable lies in a folder: d/a.exe.
ArchiveSubExe == ArchiveOf(<<100, 47, 97, 46, 101, 120, 101>>, Payload)

\* "missing" (no folder), "empty", "one" (x.zip), "noexe" (x.zip holds no
\* executable), "corrupt" (x.zip lacks its last byte), "notzip" (x.zip and a
\* newer y.txt), "two" (x.zip of time t1 and y.zip of time t2), "txt" (y.txt
\* alone), "subexe" (x.zip holds d/a.exe alone), "three" (x.zip, y.zip and w.zip
\* of three different times t1, t2, t3).
Remote(kind) == [kind |-> kind, t1 |-> 1, t2 |-> 1, t3 |-> 1]

RemoteTargets ==
    {Remote(k) : k \in {"missing", "empty", "one", "noexe", "corrupt", "notzip",
                        "txt", "subexe"}}
        \cup {[kind |-> "two", t1 |-> t1, t2 |-> t2, t3 |-> 1] : t1 \in Times, t2 \in Times}

\* Three archives with every assignment of three different times.
RemoteThree ==
    {r \in [kind : {"three"}, t1 : 1..(MaxTime + 1), t2 : 1..(MaxTime + 1),
            t3 : 1..(MaxTime + 1)] :
        r.t1 # r.t2 /\ r.t1 # r.t3 /\ r.t2 # r.t3}

RemoteTargetTree(r) ==
    IF r.kind = "missing" THEN <<>>
    ELSE Tree({TargetSource}, <<>>)
         @@ (IF r.kind = "empty" THEN <<>>
             ELSE IF r.kind = "one" THEN OneFile(ZipX, FileNode(ArchiveOne(0), 1))
             ELSE IF r.kind = "noexe" THEN OneFile(ZipX, FileNode(ArchiveDir(0), 1))
             ELSE IF r.kind = "corrupt"
             THEN OneFile(ZipX, FileNode(Front(ArchiveOne(0)), 1))
             ELSE IF r.kind = "notzip"
             THEN OneFile(ZipX, FileNode(ArchiveOne(0), 1))
                  @@ OneFile(TxtY, FileNode(ArchiveTwoExe, MaxTime))
             ELSE IF r.kind = "txt" THEN OneFile(TxtY, FileNode(ArchiveTwoExe, 1))
             ELSE IF r.kind = "subexe" THEN OneFile(ZipX, FileNode(ArchiveSubExe, 1))
             ELSE IF r.kind = "three"
             THEN OneFile(ZipX, FileNode(ArchiveOne(0), r.t1))
                  @@ OneFile(ZipY, FileNode(ArchiveTwoExe, r.t2))
                  @@ OneFile(ZipW, FileNode(ArchiveOf(NameExeB, Payload), r.t3))
             ELSE OneFile(ZipX, FileNode(ArchiveOne(0), r.t1))
                  @@ OneFile(ZipY, FileNode(ArchiveTwoExe, r.t2)))

Machine(kind, t, R, prev, r) ==
    InstallerTree(kind, t) @@ RemoteInstallerTree(R) @@ PreviousTree(prev)
        @@ RemoteTargetTree(r) @@ BaseTree

\* The machines of the model: every installer situation with a plain
\* application, every application situation with an up-to-date installer, and
\* the three-archive source folders on a machine without an earlier install.
Machines ==
    {<<kind, t, R, prev, Remote("one")>> :
        kind \in InstallerKinds, t \in Times, R \in RemoteInstallers,
        prev \in {"none", "linked"}}
    \cup {<<"local", MaxTime, [dir |-> TRUE, times |-> {1}], prev, r>> :
              prev \in Previous, r \in RemoteTargets}
    \cup {<<"local", MaxTime, [dir |-> TRUE, times |-> {1}], "none", r>> :
              r \in RemoteThree}

----------------------------------------------------------------------------
(* The worker thread: run_installation of install_utils.rs, one action for
   each call it makes. *)

ZipIdle ==
    /\ zbuf = <<>>
    /\ zpc = "off"
    /\ zret = [tag |-> "None", kind |-> "", msg |-> "", entries |-> <<>>]
    /\ zscan = [recs |-> <<>>, scan |-> <<>>]
    /\ zk = 0
    /\ zlast = [entry |-> <<>>, fault |-> "none", before |-> <<>>, ret |-> NoReturn,
                rets |-> <<>>]

\* What the history knows when the run starts on the filesystem f.
StartHistory(f) ==
    [ phases |-> <<>>,            \* the phases entered, in order
      outcome |-> "Running",      \* how the run ended
      fs0 |-> f,                  \* the filesystem when the run started
      fsCheck |-> <<>>,           \* the filesystem when check_if_running returned
      checked |-> FALSE,          \* check_if_running has returned
      wasRunning |-> FALSE,       \* the application was running then
      compared |-> FALSE,         \* perform_installer_update was called
      rename_tried |-> FALSE,     \* fs::rename of the running installer was called
      renamed |-> FALSE,          \* and it succeeded
      fetched |-> FALSE,          \* get_installer staged an installer archive
      fsStage |-> <<>>,           \* the filesystem when copy_latest_zip was called
      offered |-> <<>>,           \* the enumeration copy_latest_zip went through
      listing |-> <<>> ]          \* the enumeration find_executable went through

Init ==
    /\ ZipIdle
    /\ ExtraIdle
    /\ MainIdle
    /\ log = <<>>
    /\ DEBUG \in BOOLEAN
    /\ running \in BOOLEAN
    /\ app_name = MyApp
    /\ \E m \in Machines :
          /\ fs = Machine(m[1], m[2], m[3], m[4], m[5])
          /\ current_exe = CurrentExe(m[1])
          /\ shell_ok \in (IF m[1] = "local" /\ m[4] = "linked" THEN BOOLEAN ELSE {TRUE})
    /\ pc = "update_installer"
    /\ copied_zip_path = None
    /\ exe_path = None
    /\ EXE_PATH_TO_RUN = None
    /\ hist = StartHistory(fs)

Enter(hs, phase) == [hs EXCEPT !.phases = Append(@, phase)]

\* Mutant: an archive as old as the running installer counts as newer.
NotOlder(remote_time, local_time) == remote_time >= local_time

\* if remote_time > local_time
IsNewer(remote_time, local_time) == remote_time > local_time

\* update_installer and perform_installer_update as far as the comparison of
\* the two times.
UpdateInstaller ==
    /\ pc = "update_installer"
    /\ \E env \in BOOLEAN, order \in Orders(fs, InstallerSource) :
          LET lg0 == add_message(log, "INFO", <<"Checking for installer updates...">>)
              a == get_local_appdata(fs, lg0, env)
              meta == IsFile(a.fs, current_exe) /\ env
              local_time == a.fs[current_exe].mtime
              newest_remote_file == NewestFrom(a.fs, order, None)
              hs == Enter(hist, "SelfUpdateCheck")
          IN  /\ fs' = a.fs
              /\ IF ~a.some
                 THEN log' = a.log /\ pc' = "starting" /\ hist' = hs
                 ELSE IF ~Exists(a.fs, LocalInstallerPath)
                 THEN /\ log' = add_message(a.log, "INFO",
                                   <<"No local installer found. Downloading...">>)
                      /\ pc' = "download"
                      /\ hist' = hs
                 ELSE IF ~meta
                 THEN log' = a.log /\ pc' = "starting" /\ hist' = hs
                 ELSE /\ log' = a.log
                      /\ hist' = [hs EXCEPT !.compared = TRUE]
                      /\ pc' = IF /\ newest_remote_file # None
                                  /\ IsNewer(a.fs[newest_remote_file[1]].mtime, local_time)
                               THEN "rename" ELSE "starting"
    /\ UNCHANGED <<extraVars, zipVars, mainVars, DEBUG, app_name, running, shell_ok, current_exe,
                   copied_zip_path, exe_path, EXE_PATH_TO_RUN>>

\* Mutant: the running installer keeps its name.
NoAside(exe) == exe

\* Mutant: the aside name is another one at every update.
StampedName(exe) == WithExtension(exe, <<49, 46, 65, 112, 112, 73, 110, 115, 116, 97, 108, 108, 101, 114, 46, 111, 108, 100>>)

\* current_exe.with_extension("AppInstaller.old")
AsideName(exe) == WithExtension(exe, AppInstaller \o <<46, 111, 108, 100>>)

\* Mutant: the new installer is fetched whether or not the rename succeeded.
UpdateAnyway(ok) == "update"

\* if let Err(e) = fs::rename(..) { ..; return; } get_installer(..)
AfterRename(ok) == IF ok THEN "update" ELSE "starting"

\* perform_installer_update: the rename of the running installer.
RenameInstaller ==
    /\ pc = "rename"
    /\ \E env \in BOOLEAN :
          LET lg0 == add_message(log, "INFO", <<"Newer installer found. Updating...">>)
              r == rename(fs, current_exe, AsideName(current_exe), env)
          IN  /\ fs' = r.fs
              /\ log' = IF r.ok THEN lg0
                        ELSE add_message(lg0, "ERROR", <<"Failed to rename old installer: {}">>)
              /\ pc' = AfterRename(r.ok)
              /\ hist' = [Enter(hist, "SelfUpdating") EXCEPT
                             !.rename_tried = TRUE, !.renamed = r.ok]
    /\ UNCHANGED <<extraVars, zipVars, mainVars, DEBUG, app_name, running, shell_ok, current_exe,
                   copied_zip_path, exe_path, EXE_PATH_TO_RUN>>

\* get_installer after fs::remove_file(&copied_zip_path).
InstallerRemoved(x, lg) ==
    [fs |-> x.fs, panic |-> FALSE,
     log |-> IF x.ok THEN lg
             ELSE add_message(lg, "ERROR", <<"Failed to delete installer zip file: {}">>)]

\* get_installer after unzip_file.
InstallerUnzipped(u, zip_file, envRemove) ==
    IF u.panic THEN u
    ELSE InstallerRemoved(remove_file(u.fs, zip_file, envRemove), u.log)

\* get_installer from the match on copy_latest_zip's result.
InstallerCopied(c, fault, envRemove) ==
    IF c.ret = None
    THEN [fs |-> c.fs, panic |-> FALSE,
          log |-> add_message(c.log, "ERROR", <<"Failed to download installer.">>)]
    ELSE InstallerUnzipped(unzip_file(c.fs, c.log, c.ret[1], AppInstaller, fault, 1),
                           c.ret[1], envRemove)

\* get_installer: [fs, log, panic]
get_installer(f, lg, order, envCopy, fault, envRemove) ==
    InstallerCopied(copy_latest_zip(f, lg, AppInstaller, order, envCopy), fault, envRemove)

\* Mutant: the self-update check is made again after the update.
CheckAgain == "update_installer"

\* Where the worker goes on after the self-update: nothing stops it
\* (//unsafe { PostQuitMessage(0); }).
AfterUpdate == "starting"

\* What follows get_installer in its caller; g is what it gave and c what its
\* copy_latest_zip gave (for the history: an archive was staged when the copy
\* returned a path or left a file).
InstallerGot(g, c) ==
    /\ fs' = g.fs
    /\ log' = IF pc = "update" /\ ~g.panic
              THEN add_message(g.log, "INFO", <<"Installer updated.">>)
              ELSE g.log
    /\ pc' = IF g.panic THEN "panicked"
             ELSE IF pc = "update" THEN AfterUpdate ELSE "starting"
    /\ hist' = [(IF pc = "download" THEN Enter(hist, "FetchSelfUpdate") ELSE hist)
                   EXCEPT !.fetched = (c.ret # None \/ c.fs # fs)]

\* get_installer, called when no local installer exists ("download") or after
\* the rename ("update"), and what follows it in the caller.
GetInstaller ==
    /\ pc \in {"download", "update"}
    /\ \E order \in Orders(fs, InstallerSource), envCopy \in BOOLEAN,
          fault \in UnzipFaults, envRemove \in BOOLEAN :
          InstallerGot(get_installer(fs, log, order, envCopy, fault, envRemove),
                       copy_latest_zip(fs, log, AppInstaller, order, envCopy))
    /\ UNCHANGED <<extraVars, zipVars, mainVars, DEBUG, app_name, running, shell_ok, current_exe,
                   copied_zip_path, exe_path, EXE_PATH_TO_RUN>>

\* Mutant: the check never finds the process.
NeverRunning == FALSE

\* check_if_running(&format!("{}.exe", app_name))
check_if_running == running

\* Mutant: the worker makes the check once more before it goes on.
CheckOnceMore == "starting"

\* Where the worker goes on when the application is not running.
AfterCheck == "uninstall"

\* "Starting installation for {}" and the check for a running application.
CheckRunning ==
    /\ pc = "starting"
    /\ LET lg0 == add_message(log, "INFO", <<"Starting installation for {}", app_name>>)
           hs == [Enter(hist, "CheckRunningProcess") EXCEPT
                     !.fsCheck = fs, !.checked = TRUE, !.wasRunning = running]
       IN  IF check_if_running
           THEN /\ log' = add_message(lg0, "ERROR",
                             <<"'{}' is running. Please close it and try again.", app_name>>)
                /\ pc' = "done"
                /\ hist' = [hs EXCEPT !.outcome = "AlreadyRunning"]
           ELSE /\ log' = lg0
                /\ pc' = AfterCheck
                /\ hist' = hs
    /\ UNCHANGED <<extraVars, zipVars, mainVars, fs, DEBUG, app_name, running, shell_ok, current_exe,
                   copied_zip_path, exe_path, EXE_PATH_TO_RUN>>

\* The filesystem and the log become what the call gave.
Took(r) == fs' = r.fs /\ log' = r.log

\* What uninstall_application can return, the system refusing the removal of the
\* directory, of the shortcut, of both or of neither.
UninstallResults ==
    {uninstall_application(fs, log, app_name, envDir, envFile) :
        envDir \in BOOLEAN, envFile \in BOOLEAN}

\* The statement with one of the results R of its call.
UninstallFrom(R) ==
    /\ pc = "uninstall"
    /\ \E r \in R : Took(r)
    /\ pc' = "copy"
    /\ hist' = Enter(hist, "UninstallPrevious")
    /\ UNCHANGED <<extraVars, zipVars, mainVars, DEBUG, app_name, running, shell_ok, current_exe,
                   copied_zip_path, exe_path, EXE_PATH_TO_RUN>>

\* uninstall_application(&listview, app_name)
Uninstall == UninstallFrom(UninstallResults)

\* The two branches of if let Some(copied_zip_path) = copy_latest_zip(..).
Staged(c, order) ==
    /\ fs' = c.fs
    /\ copied_zip_path' = c.ret
    /\ IF c.ret = None
       THEN /\ log' = add_message(c.log, "ERROR",
                         <<"Installation failed for {}.", app_name>>)
            /\ pc' = "finish"
            /\ hist' = [Enter(hist, "StageArchive") EXCEPT
                            !.outcome = "NoArchive", !.fsStage = fs, !.offered = order]
       ELSE /\ log' = c.log
            /\ pc' = "unzip"
            /\ hist' = [Enter(hist, "StageArchive") EXCEPT !.fsStage = fs,
                                                            !.offered = order]

\* if let Some(copied_zip_path) = copy_latest_zip(...) and its else branch.
CopyLatestZip ==
    /\ pc = "copy"
    /\ \E order \in Orders(fs, PathJoin(REMOTE_DIR, app_name)), env \in BOOLEAN :
          Staged(copy_latest_zip(fs, log, app_name, order, env), order)
    /\ UNCHANGED <<extraVars, zipVars, mainVars, DEBUG, app_name, running, shell_ok, current_exe,
                   exe_path, EXE_PATH_TO_RUN>>

\* The worker after unzip_file: a panic ends the thread.
UnzipReturned(u) ==
    /\ fs' = u.fs
    /\ log' = u.log
    /\ pc' = IF u.panic THEN "panicked" ELSE "find"

\* What unzip_file can return, the system failing one call of one entry or none.
UnzipResults ==
    {unzip_file(fs, log, copied_zip_path[1], app_name, fault, at) :
        fault \in UnzipFaults, at \in 1..MaxEntries}

\* The statement with one of the results R of its call.
UnzipFrom(R) ==
    /\ pc = "unzip"
    /\ \E u \in R : UnzipReturned(u)
    /\ hist' = Enter(hist, "Extract")
    /\ UNCHANGED <<extraVars, zipVars, mainVars, DEBUG, app_name, running, shell_ok, current_exe,
                   copied_zip_path, exe_path, EXE_PATH_TO_RUN>>

\* unzip_file(&listview, &copied_zip_path, app_name)
UnzipFile == UnzipFrom(UnzipResults)

\* get_local_appdata and find_executable(&app_dir) with the two messages.
FindExecutable ==
    /\ pc = "find"
    /\ \E order \in Orders(fs, AppDir(app_name)) :
          LET a == get_local_appdata(fs, log, TRUE)
              found == find_executable(a.fs, AppDir(app_name), order)
          IN  /\ fs' = a.fs
              /\ IF ~a.some
                 THEN /\ log' = a.log
                      /\ exe_path' = None
                      /\ pc' = "remove"
                      /\ hist' = [Enter(hist, "LocateExecutable") EXCEPT
                                     !.outcome = "LocalAppDataUnavailable",
                                     !.listing = order]
                 ELSE IF found = None
                 THEN /\ log' = add_message(a.log, "ERROR",
                                   <<"Could not find executable for {}", app_name>>)
                      /\ exe_path' = None
                      /\ pc' = "remove"
                      /\ hist' = [Enter(hist, "LocateExecutable") EXCEPT
                                     !.outcome = "ExecutableNotFound",
                                     !.listing = order]
                 ELSE /\ log' = add_message(a.log, "DEBUG",
                                   <<"Found executable at {:?}", found[1]>>)
                      /\ exe_path' = found
                      /\ pc' = "shortcut"
                      /\ hist' = [Enter(hist, "LocateExecutable") EXCEPT
                                     !.listing = order]
    /\ UNCHANGED <<extraVars, zipVars, mainVars, DEBUG, app_name, running, shell_ok, current_exe,
                   copied_zip_path, EXE_PATH_TO_RUN>>

\* create_shortcut(&listview, exe_str, app_name) and the store into
\* EXE_PATH_TO_RUN (paths of the model are always valid text).
CreateShortcut ==
    /\ pc = "shortcut"
    /\ \E env \in BOOLEAN :
          Took(create_shortcut(fs, log, exe_path[1], app_name, env))
    /\ EXE_PATH_TO_RUN' = exe_path
    /\ pc' = "remove"
    /\ hist' = Enter(hist, "FinalizeInstall")
    /\ UNCHANGED <<extraVars, zipVars, mainVars, DEBUG, app_name, running, shell_ok, current_exe,
                   copied_zip_path, exe_path>>

\* fs::remove_file(&copied_zip_path)
RemoveZip ==
    /\ pc = "remove"
    /\ \E env \in BOOLEAN :
          LET x == remove_file(fs, copied_zip_path[1], env)
          IN  /\ fs' = x.fs
              /\ log' = IF x.ok THEN log
                        ELSE add_message(log, "ERROR",
                                 <<"Failed to delete temporary zip file: {}">>)
    /\ pc' = "finish"
    /\ UNCHANGED <<extraVars, zipVars, mainVars, DEBUG, app_name, running, shell_ok, current_exe,
                   copied_zip_path, exe_path, EXE_PATH_TO_RUN, hist>>

\* add_message(&listview, "INFO", "Installation process finished.")
Finish ==
    /\ pc = "finish"
    /\ log' = add_message(log, "INFO", <<"Installation process finished.">>)
    /\ pc' = "done"
    /\ hist' = IF EXE_PATH_TO_RUN # None
               THEN [Enter(hist, "Complete") EXCEPT !.outcome = "Complete"]
               ELSE hist
    /\ UNCHANGED <<extraVars, zipVars, mainVars, fs, DEBUG, app_name, running, shell_ok, current_exe,
                   copied_zip_path, exe_path, EXE_PATH_TO_RUN>>

Next ==
    \/ UpdateInstaller
    \/ RenameInstaller
    \/ GetInstaller
    \/ CheckRunning
    \/ Uninstall
    \/ CopyLatestZip
    \/ UnzipFile
    \/ FindExecutable
    \/ CreateShortcut
    \/ RemoveZip
    \/ Finish

Spec == Init /\ [][Next]_vars

----------------------------------------------------------------------------
(* main.rs: the start of the program and its window. *)

\* Largest number of arguments on the command line.
MaxArgs == 2
\* Largest number of rows the user's Copy clicks add to the list.
MaxRows == 4

DebugFlag == <<45, 45, 100, 101, 98, 117, 103>>
Tool == <<84, 111, 111, 108>>

ArgWords == {DebugFlag, MyApp, Tool}

RECURSIVE SeqsUpTo(_, _)
SeqsUpTo(S, n) ==
    IF n = 0 THEN {<<>>}
    ELSE SeqsUpTo(S, n - 1)
         \cup {Append(s, x) : s \in {q \in SeqsUpTo(S, n - 1) : Len(q) = n - 1}, x \in S}

MainInit ==
    /\ ZipIdle
    /\ ExtraIdle
    /\ RunIdle
    /\ fs = <<>>
    /\ DEBUG = FALSE
    /\ log = <<>>
    /\ args \in SeqsUpTo(ArgWords, MaxArgs)
    /\ mpc = "main"
    /\ APP_NAME = None
    /\ worker = <<>>

\* for arg in args: the last argument that is not "--debug" is the name.
RECURSIVE ParseArgs(_, _)
ParseArgs(rest, st) ==
    IF rest = <<>> THEN st
    ELSE ParseArgs(Tail(rest),
                   IF Head(rest) = DebugFlag THEN [st EXCEPT !.debug_mode = TRUE]
                   ELSE [st EXCEPT !.app_name = Some(Head(rest))])

\* main: the arguments, the usage exit, DEBUG = debug_mode, create_window as
\* far as CreateWindowExA.
Main ==
    /\ mpc = "main"
    /\ LET st == ParseArgs(args, [app_name |-> None, debug_mode |-> FALSE])
       IN  /\ app_name' = st.app_name
           /\ IF st.app_name = None
              THEN mpc' = "exit" /\ DEBUG' = DEBUG
              ELSE mpc' = "create" /\ DEBUG' = st.debug_mode
    /\ UNCHANGED <<extraVars, zipVars, fs, log, pc, running, shell_ok, current_exe, copied_zip_path,
                   exe_path, EXE_PATH_TO_RUN, hist, args, APP_NAME, worker>>

\* handle_wm_create: the first row, then the worker thread is spawned with the
\* name APP_NAME holds, or the row that says there is none.
HandleWmCreate ==
    /\ mpc = "create"
    /\ LET lg0 == add_message(log, "INFO", <<"System initialized.">>)
       IN  IF APP_NAME # None
           THEN log' = lg0 /\ worker' = Append(worker, APP_NAME[1])
           ELSE /\ log' = add_message(lg0, "ERROR", <<"No application name provided.">>)
                /\ worker' = worker
    /\ mpc' = "loop"
    /\ UNCHANGED <<extraVars, zipVars, fs, runVars, DEBUG, args, APP_NAME>>

\* handle_wm_command for IDC_OK and IDC_CANCEL, and WM_DESTROY: PostQuitMessage(0)
PostQuit ==
    /\ mpc = "loop"
    /\ mpc' = "quit"
    /\ UNCHANGED <<extraVars, zipVars, fs, runVars, DEBUG, log, args, APP_NAME, worker>>

\* handle_wm_command for IDC_COPY_BUTTON: copy_to_clipboard, which adds one of
\* its two rows according to what OpenClipboard returned.
CopyToClipboard ==
    /\ mpc = "loop"
    /\ Len(log) < MaxRows
    /\ \E opened \in BOOLEAN :
          log' = IF ~opened THEN add_message(log, "INFO", <<"Log copied to clipboard.">>)
                 ELSE add_message(log, "ERROR", <<"Failed to open clipboard.">>)
    /\ UNCHANGED <<extraVars, zipVars, fs, runVars, DEBUG, args, mpc, APP_NAME, worker>>

\* GetMessageA returns 0 for WM_QUIT: the loop, create_window and main end.
QuitLoop ==
    /\ mpc = "quit"
    /\ mpc' = "exit"
    /\ UNCHANGED <<extraVars, zipVars, fs, runVars, DEBUG, log, args, APP_NAME, worker>>

MainNext == Main \/ HandleWmCreate \/ PostQuit \/ CopyToClipboard \/ QuitLoop

SpecMain == MainInit /\ [][MainNext]_vars

----------------------------------------------------------------------------
(* Properties of the run and of the start-up. *)

\* The run is over: the worker has returned from run_installation.
RunOver == pc = "done"

\* The three places an installation lives in: the install directory of the
\* application, its shortcut files, and the files staged in the Utils folder.
InstallDirOf(f) == Restrict(f, Subtree(f, AppDir(app_name)))
ShortcutsOf(f) == Restrict(f, {p \in DOMAIN f : Last(p) = LnkName(add_spaces(app_name))})
StagingOf(f) ==
    Restrict(f, {p \in DOMAIN f : Len(p) = Len(LocalAppDataUtils) + 1
                                   /\ IsPrefix(LocalAppDataUtils, p) /\ IsFile(f, p)})

\* The phases of the target's installation that follow the check.
LaterPhases ==
    {"UninstallPrevious", "StageArchive", "Extract", "LocateExecutable",
     "FinalizeInstall", "Complete"}

PhaseSet == {hist.phases[k] : k \in 1..Len(hist.phases)}

\* C1 as stated: the application was running at the check, so the run ends as
\* Failed(AlreadyRunning) and the install directory, the shortcut and the
\* staging location are as they were when the run started.
C1_Original ==
    (RunOver /\ hist.checked /\ hist.wasRunning)
        => /\ hist.outcome = "AlreadyRunning"
           /\ InstallDirOf(fs) = InstallDirOf(hist.fs0)
           /\ ShortcutsOf(fs) = ShortcutsOf(hist.fs0)
           /\ StagingOf(fs) = StagingOf(hist.fs0)
           /\ PhaseSet \cap LaterPhases = {}
           /\ EXE_PATH_TO_RUN = None

\* C1 (amended): when the application is running at the check, the run ends
\* there as Failed(AlreadyRunning) and changes nothing from the check on: the
\* filesystem stays the one the check saw, no later phase is entered, nothing
\* is staged for the target and no executable is handed over. (What the
\* self-update step did before the check stays done.)
C1_NoMutationFromCheck ==
    (hist.checked /\ hist.wasRunning)
        => /\ RunOver
           /\ hist.outcome = "AlreadyRunning"
           /\ fs = hist.fsCheck
           /\ Last(hist.phases) = "CheckRunningProcess"
           /\ PhaseSet \cap LaterPhases = {}
           /\ copied_zip_path = None
           /\ EXE_PATH_TO_RUN = None

\* A run that failed as AlreadyRunning after its self-update step had changed
\* the filesystem.
C1_Witness ==
    /\ RunOver
    /\ hist.wasRunning
    /\ hist.outcome = "AlreadyRunning"
    /\ hist.fetched
    /\ fs # hist.fs0

\* C2 as stated: once the window is created, the workflow has been started for
\* exactly the name given on the command line; without a name none is started.
C2_WorkflowStartedForName ==
    /\ (mpc \in {"loop", "quit", "exit"} /\ app_name # None) => worker = <<app_name[1]>>
    /\ app_name = None => worker = <<>>

\* C3 as stated: after the running installer was renamed aside for a newer
\* archive, the run ends with the self-update: neither the running-process
\* check nor any phase of the target's installation is entered.
C3_SelfUpdateEndsRun ==
    hist.renamed =>
        /\ "CheckRunningProcess" \notin PhaseSet
        /\ PhaseSet \cap LaterPhases = {}
        /\ EXE_PATH_TO_RUN = None

\* The times of the .zip files of the installer's remote folder.
RemoteTimes(f) ==
    {f[p].mtime : p \in {q \in Children(f, InstallerSource) :
                            IsFile(f, q) /\ Extension(q) = ZipExt}}

\* Some archive of the installer's remote folder is strictly newer than the
\* running executable.
StrictlyNewer(f) == \E t \in RemoteTimes(f) : t > f[current_exe].mtime

\* The self-update step is over.
UpdateOver == hist.checked

\* The system refused nothing the self-update step asked for: the Utils folder
\* is there and the time of the running executable was read.
NoRefusal ==
    /\ shell_ok
    /\ Exists(hist.fsCheck, LocalAppDataUtils)
    /\ Exists(hist.fs0, LocalInstallerPath) => hist.compared
    /\ hist.rename_tried => hist.renamed

Rank(phase) ==
    CASE phase = "SelfUpdateCheck" -> 1
      [] phase \in {"FetchSelfUpdate", "SelfUpdating"} -> 2
      [] phase = "CheckRunningProcess" -> 3
      [] phase = "UninstallPrevious" -> 4
      [] phase = "StageArchive" -> 5
      [] phase = "Extract" -> 6
      [] phase = "LocateExecutable" -> 7
      [] phase = "FinalizeInstall" -> 8
      [] phase = "Complete" -> 9

\* The phases of the claim's list, in its order.
ForwardOrder ==
    <<"SelfUpdateCheck", "CheckRunningProcess", "UninstallPrevious", "StageArchive",
      "Extract", "LocateExecutable", "FinalizeInstall", "Complete">>

Listed(phase) == \E k \in 1..Len(ForwardOrder) : ForwardOrder[k] = phase

\* C5: the phases a run has entered are strictly forward in the order (so none
\* is entered twice and none after a later one), the worker stands in one
\* phase at a time, and a run that completes has gone through the whole list
\* in its order.
C5_PhasesStrictlyForward ==
    /\ \A i \in 1..Len(hist.phases) : \A j \in 1..Len(hist.phases) :
          i < j => Rank(hist.phases[i]) < Rank(hist.phases[j])
    /\ hist.outcome = "Complete" => SelectSeq(hist.phases, Listed) = ForwardOrder

\* A completed run that went through a self-update on its way.
C5_Witness ==
    /\ RunOver
    /\ hist.outcome = "Complete"
    /\ "SelfUpdating" \in PhaseSet

----------------------------------------------------------------------------
(* Properties of extract_file, stated on the last call: its entry zlast.entry,
   the filesystem before it zlast.before and after it fs, its return. *)

\* The paths whose node one call created, removed or changed.
Touched(before, after) ==
    {p \in DOMAIN before \cup DOMAIN after :
        p \notin DOMAIN before \/ p \notin DOMAIN after \/ before[p] # after[p]}

\* The last extract_file call was for an entry with a method other than stored
\* and deflate, a non-directory name and valid local header and payload bounds.
UnsupportedCase ==
    /\ zk > 0
    /\ zlast.entry.compression_method \notin {0, 8}
    /\ (zlast.entry.file_name = <<>> \/ Last(zlast.entry.file_name) # 47)
    /\ PayloadValid(zbuf, zlast.entry)

\* C11: extract of an entry whose method is neither 0 nor 8 returns the
\* unsupported-compression error and has neither created nor truncated the
\* file destination_dir/name (read in its favour: only calls that did return
\* that error are looked at).
C11_UnsupportedLeavesNoFile ==
    (UnsupportedCase /\ zlast.ret.kind = "Unsupported")
        => TargetPath(zlast.entry) \notin Touched(zlast.before, fs)

\* The last extract_file call was for an entry whose name ends with '/'.
DirectoryCase ==
    /\ zk > 0
    /\ zlast.entry.file_name # <<>>
    /\ zlast.entry.file_name[Len(zlast.entry.file_name)] = 47

\* No file was created, removed or changed by the last call.
NoFileWritten ==
    \A p \in Touched(zlast.before, fs) : p \notin DOMAIN zlast.before /\ IsDir(fs, p)

\* C12 as claimed: for a name that ends with '/', extract creates the
\* directory, returns success and writes no file, whatever the compressed
\* size and the method are (read in its favour: the local header is valid and
\* the environment has failed no system call).
C12_Original ==
    (DirectoryCase /\ zlast.fault = "none" /\ LocalHeaderValid(zbuf, zlast.entry))
        => /\ zlast.ret.tag = "Ok"
           /\ IsDir(fs, TargetPath(zlast.entry))
           /\ NoFileWritten

\* C12 amended: for a name that ends with '/' in an entry whose local header
\* and payload bounds are valid, extract writes no file and reads no method;
\* it returns success with destination_dir/name (and its parents) a directory,
\* or the I/O error of the directory creation with nothing changed. With an
\* invalid local header or payload bound it returns that error and creates
\* nothing.
C12_DirectoryEntryAfterBounds ==
    DirectoryCase =>
        /\ NoFileWritten
        /\ PayloadValid(zbuf, zlast.entry)
               => \/ /\ zlast.ret.tag = "Ok"
                     /\ IsDir(fs, TargetPath(zlast.entry))
                     /\ \A p \in Touched(zlast.before, fs) :
                            IsPrefix(p, TargetPath(zlast.entry))
                  \/ /\ zlast.ret = IoErr("create_dir_all")
                     /\ fs = zlast.before
        /\ ~PayloadValid(zbuf, zlast.entry)
               => /\ zlast.ret.tag = "Err"
                  /\ zlast.ret.kind \in {"UnexpectedEof", "InvalidData"}
                  /\ fs = zlast.before

\* C12 witness: a directory entry with a payload of its own and method 9 made
\* a new directory.
C12_Witness ==
    /\ DirectoryCase
    /\ zlast.ret.tag = "Ok"
    /\ Narrow(zlast.entry.compressed_size) > 0
    /\ zlast.entry.compression_method = 9
    /\ TargetPath(zlast.entry) \notin DOMAIN zlast.before
    /\ IsDir(fs, TargetPath(zlast.entry))

\* The fixed part of the local header of e lies beyond the buffer.
LocalHeaderCut(buffer, e) ==
    WGt(WAdd(e.local_header_offset, Wide(30)), Wide(Len(buffer)))

\* The fixed part fits and its first four bytes are not 50 4B 03 04.
LocalSignatureWrong(buffer, e) ==
    /\ ~LocalHeaderCut(buffer, e)
    /\ LET o == Narrow(e.local_header_offset)
       IN  SubSeq(buffer, o + 1, o + 4) # <<80, 75, 3, 4>>

\* C13: extract fails with an invalid-local-header error whenever
\* local_header_offset + 30 exceeds the buffer length or the four bytes at
\* local_header_offset are not 50 4B 03 04, whatever the name and extra
\* lengths and the payload bound found there would be, and it touches no
\* file; it returns these errors in no other case.
C13_InvalidLocalHeaderFirst ==
    zk > 0 =>
        /\ LocalHeaderCut(zbuf, zlast.entry)
               <=> zlast.ret = ErrReturn("UnexpectedEof", "Incomplete local header")
        /\ LocalSignatureWrong(zbuf, zlast.entry)
               <=> zlast.ret = ErrReturn("InvalidData",
                                         "Invalid local file header signature")
        /\ ~LocalHeaderValid(zbuf, zlast.entry) => fs = zlast.before

\* C13 witness: the signature was found wrong at an offset from where the
\* lengths at +26 and +28 would put the payload beyond the buffer.
C13_Witness ==
    /\ zk > 0
    /\ LocalSignatureWrong(zbuf, zlast.entry)
    /\ zlast.ret.kind = "InvalidData"
    /\ WGt(WAdd(Wide(PayloadStart(zbuf, zlast.entry)), zlast.entry.compressed_size),
           Wide(Len(zbuf)))

\* The payload of e, placed by the lengths of the local header, would end
\* beyond the buffer.
PayloadCut(buffer, e) ==
    WGt(WAdd(Wide(PayloadStart(buffer, e)), e.compressed_size), Wide(Len(buffer)))

\* C14: with a valid local header, extract fails with the truncated-payload
\* error exactly when local_header_offset + 30 + local name length + local
\* extra length + compressed_size exceeds the buffer length, the lengths being
\* those at +26 and +28 of the local header; the failing call changes nothing
\* on disk and the loop over the entries goes on.
C14_TruncatedPayloadExactly ==
    (zk > 0 /\ LocalHeaderValid(zbuf, zlast.entry)) =>
        /\ PayloadCut(zbuf, zlast.entry)
               <=> zlast.ret = ErrReturn("UnexpectedEof", "File data exceeds buffer")
        /\ PayloadCut(zbuf, zlast.entry)
               => /\ fs = zlast.before
                  /\ zpc = "extract" \/ zk = Len(zret.entries)

\* C14 witness: the payload of an entry that is not the last one was found
\* truncated, and the next entry is about to be extracted.
C14_Witness ==
    /\ zk > 0
    /\ LocalHeaderValid(zbuf, zlast.entry)
    /\ PayloadCut(zbuf, zlast.entry)
    /\ zlast.ret.msg = "File data exceeds buffer"
    /\ zk < Len(zret.entries)
    /\ zpc = "extract"

\* C15: every file or directory the last extract call created, truncated or
\* wrote lies in the subtree of the destination directory (looked at for the
\* calls in which the environment failed no system call).
C15_WritesStayInside ==
    (zk > 0 /\ zlast.fault = "none") => \A p \in Touched(zlast.before, fs) : IsPrefix(ExtractDir, p)

----------------------------------------------------------------------------
(* The loop of unzip_file over the parsed entries. *)

Row(message_type, message) == [type |-> message_type, message |-> message]

\* The rows the loop has added after k entries whose extract calls returned
\* rets: one "Extracting file" row for each entry, in parse order, followed by
\* one "Failed to extract" row when the call failed.
RECURSIVE LoopRows(_, _, _)
LoopRows(entries, rets, k) ==
    IF k = 0 THEN <<>>
    ELSE LoopRows(entries, rets, k - 1)
            \o <<Row("INFO", <<"Extracting file: {}", entries[k].file_name>>)>>
            \o (IF rets[k].tag = "Err"
                THEN <<Row("ERROR", <<"Failed to extract {}: {}", entries[k].file_name>>)>>
                ELSE <<>>)

SuccessRows ==
    IF zpc = "done"
    THEN <<Row("INFO", <<"Successfully unzipped to '{:?}'", ExtractDir>>)>>
    ELSE <<>>

\* What the second entry's extraction would have returned had the first one
\* succeeded (the first one succeeds when the environment fails nothing).
SecondAfterFirstSucceeded ==
    extract_file(zret.entries[2], zbuf, ExtractDir,
                 extract_file(zret.entries[1], zbuf, ExtractDir, OldTree, "none", 0).fs,
                 "none", 0).ret

\* C16 as claimed, for the second of the parsed entries: when the extraction
\* of the first entry failed where it could have succeeded, the second entry
\* is extracted with the outcome it would have had if the first had succeeded.
C16_Original ==
    ( /\ zk = 2
      /\ zlast.rets[1].tag = "Err"
      /\ extract_file(zret.entries[1], zbuf, ExtractDir, OldTree, "none", 0).ret.tag = "Ok"
      /\ zlast.fault = "none" )
        => zlast.ret = SecondAfterFirstSucceeded

\* C16 amended: once the archive has parsed, extract is attempted exactly once
\* for every parsed entry, in parse order; a failing entry gets one ERROR row
\* after its INFO row and the loop goes on with the next entry, on the
\* filesystem as the entries before it left it; the loop ends only after the
\* last entry.
C16_EveryEntryAttemptedOnce ==
    (zpc \in {"extract", "done"} /\ zret.tag = "Ok") =>
        /\ zk <= Len(zret.entries)
        /\ Len(zlast.rets) = zk
        /\ zpc = "done" => zk = Len(zret.entries)
        /\ log = LoopRows(zret.entries, zlast.rets, zk) \o SuccessRows
        /\ zk > 0 => zlast.entry = zret.entries[zk] /\ zlast.ret = zlast.rets[zk]

\* C16 witness: the loop has ended after two entries, of which the first
\* failed and the second was extracted.
C16_Witness ==
    /\ zpc = "done"
    /\ Len(zret.entries) = 2
    /\ zk = 2
    /\ zlast.rets[1].tag = "Err"
    /\ zlast.rets[2].tag = "Ok"

----------------------------------------------------------------------------
(* Properties of the staging and of the search for the executable. *)

HasSuffix(name, suffix) ==
    Len(name) >= Len(suffix)
        /\ SubSeq(name, Len(name) - Len(suffix) + 1, Len(name)) = suffix

\* The regular files directly in the target's source directory whose name
\* ends with ".zip".
TargetZips(f) ==
    {p \in DOMAIN f : /\ Len(p) = Len(TargetSource) + 1
                      /\ SubSeq(p, 1, Len(TargetSource)) = TargetSource
                      /\ f[p].kind = "file"
                      /\ HasSuffix(Last(p), <<46, 122, 105, 112>>)}

DistinctTimes(f, S) == \A p \in S, q \in S : p # q => f[p].mtime # f[q].mtime

\* Where the file p of the source directory is staged.
StagePath(p) == <<Local, Utils, Last(p)>>

StageEntered == "StageArchive" \in PhaseSet

CopyRefused ==
    \E k \in 1..Len(log) :
        /\ log[k].type = "ERROR"
        /\ log[k].message[1] \in {"Error copying file: {}",
                                  "Could not find LOCALAPPDATA directory."}

\* C17: whatever the enumeration order and the names, StageArchive stages a
\* .zip file of the source directory whose modification time no other .zip
\* file exceeds, so the one with the greatest time when the times differ
\* pairwise; a file without the .zip extension is never staged. Nothing is
\* staged only when the copy itself is refused.
C17_NewestByTimeStaged ==
    StageEntered =>
        /\ copied_zip_path # None
               => \E p \in TargetZips(hist.fsStage) :
                     /\ copied_zip_path = Some(StagePath(p))
                     /\ \A q \in TargetZips(hist.fsStage) :
                            hist.fsStage[q].mtime <= hist.fsStage[p].mtime
                     /\ pc = "unzip" => /\ IsFile(fs, StagePath(p))
                                        /\ fs[StagePath(p)].data = hist.fsStage[p].data
        /\ (TargetZips(hist.fsStage) # {} /\ copied_zip_path = None)
               => /\ CopyRefused
                  /\ \A q \in TargetZips(hist.fsStage) :
                         IsFile(fs, StagePath(q))
                             => /\ fs[StagePath(q)].data = <<>>
                                /\ \A r \in TargetZips(hist.fsStage) :
                                       hist.fsStage[r].mtime <= hist.fsStage[q].mtime

\* C17 witness: of three archives with three different times the newest,
\* x.zip, which is neither first nor last by name, has been staged.
C17_Witness ==
    /\ pc = "unzip"
    /\ Cardinality(TargetZips(hist.fsStage)) = 3
    /\ DistinctTimes(hist.fsStage, TargetZips(hist.fsStage))
    /\ copied_zip_path = Some(StagePath(ZipX))
    /\ fs[StagePath(ZipX)].data = hist.fsStage[ZipX].data

\* The source directory of the target cannot be read or holds no .zip file.
NoArchiveCase ==
    /\ StageEntered
    /\ \/ ~IsDir(hist.fsStage, TargetSource)
       \/ TargetZips(hist.fsStage) = {}

\* C18: when the source directory is unreadable or holds no .zip file, the
\* run ends as Failed(NoArchiveAvailable): the filesystem stays as StageArchive
\* found it (nothing staged, nothing extracted, no shortcut made), no later
\* phase is entered and no executable is handed over.
C18_NoArchiveEndsRun ==
    NoArchiveCase =>
        /\ hist.outcome = "NoArchive"
        /\ copied_zip_path = None
        /\ fs = hist.fsStage
        /\ PhaseSet \cap {"Extract", "LocateExecutable", "FinalizeInstall", "Complete"} = {}
        /\ exe_path = None
        /\ EXE_PATH_TO_RUN = None
        /\ pc \in {"finish", "done"}
        /\ \E k \in 1..Len(log) :
              log[k] = [type |-> "ERROR",
                        message |-> <<"Installation failed for {}.", app_name>>]

\* C18 witness: a run has ended on a source directory that holds a text file
\* and no archive.
C18_Witness ==
    /\ RunOver
    /\ NoArchiveCase
    /\ TxtY \in DOMAIN hist.fsStage
    /\ hist.outcome = "NoArchive"

\* The install directory of the target.
InstallDir == <<Local, Utils, MyApp>>

\* The positions of the enumeration at which a regular file with a name that
\* ends with ".exe" stands.
ExeAt(f, listing) ==
    {k \in 1..Len(listing) :
        /\ listing[k] \in DOMAIN f
        /\ f[listing[k]].kind = "file"
        /\ HasSuffix(Last(listing[k]), <<46, 101, 120, 101>>)}

LocateEntered == "LocateExecutable" \in PhaseSet

\* C19: LocateExecutable goes through the entries that sit directly in the
\* install directory and returns the first regular file with extension exe
\* in enumeration order, never a file of a subdirectory; when there is none
\* the run ends as Failed(ExecutableNotFound), no shortcut is created and no
\* executable is handed over.
C19_FirstExecutableInFolder ==
    LocateEntered =>
        /\ \A k \in 1..Len(hist.listing) : Front(hist.listing[k]) = InstallDir
        /\ {hist.listing[k] : k \in 1..Len(hist.listing)}
               = {p \in DOMAIN fs : Len(p) = Len(InstallDir) + 1 /\ Front(p) = InstallDir}
        /\ ExeAt(fs, hist.listing) # {}
               => /\ exe_path # None
                  /\ \E k \in ExeAt(fs, hist.listing) :
                        /\ exe_path = Some(hist.listing[k])
                        /\ \A j \in ExeAt(fs, hist.listing) : k <= j
        /\ ExeAt(fs, hist.listing) = {}
               => /\ exe_path = None
                  /\ hist.outcome = "ExecutableNotFound"
                  /\ PhaseSet \cap {"FinalizeInstall", "Complete"} = {}
                  /\ ShortcutsOf(fs) = ShortcutsOf(hist.fsStage)
                  /\ EXE_PATH_TO_RUN = None

\* C19 witness: the folder holds a.exe and b.exe and b.exe, the first of the
\* enumeration, was returned.
C19_Witness ==
    /\ LocateEntered
    /\ Cardinality(ExeAt(fs, hist.listing)) = 2
    /\ exe_path # None
    /\ Last(exe_path[1]) = NameExeB
    /\ hist.listing[1] = exe_path[1]

\* C19 second case reached: the only executable lies in a subdirectory and
\* the run has ended without one.
ExeInSubdirectoryOnly ==
    /\ RunOver
    /\ LocateEntered
    /\ \E p \in DOMAIN fs : Len(p) = Len(InstallDir) + 2
                            /\ SubSeq(p, 1, Len(InstallDir)) = InstallDir
                            /\ HasSuffix(Last(p), <<46, 101, 120, 101>>)
    /\ exe_path = None

\* The ways a run fails.
FailedOutcomes ==
    {"AlreadyRunning", "NoArchive", "ExecutableNotFound", "LocalAppDataUnavailable"}

\* C20: an executable path is handed to the launcher only in a run in which
\* the running-process check passed, an archive was staged and an executable
\* was located, and the path is the one LocateExecutable returned, a regular
\* .exe file directly in the install directory; a run that ends Failed hands
\* over nothing.
C20_HandOffOnlyAfterLocate ==
    /\ EXE_PATH_TO_RUN # None
           => /\ hist.checked /\ ~hist.wasRunning
              /\ StageEntered /\ copied_zip_path # None
              /\ LocateEntered /\ exe_path # None
              /\ EXE_PATH_TO_RUN = exe_path
              /\ ExeAt(fs, hist.listing) # {}
              /\ \E k \in ExeAt(fs, hist.listing) : EXE_PATH_TO_RUN = Some(hist.listing[k])
              /\ hist.outcome \notin FailedOutcomes
    /\ hist.outcome \in FailedOutcomes => EXE_PATH_TO_RUN = None
    /\ (RunOver /\ EXE_PATH_TO_RUN = None) => hist.outcome \in FailedOutcomes

\* C20 witness: a run has ended with the located executable handed over,
\* although the shortcut could not be made.
C20_Witness ==
    /\ RunOver
    /\ EXE_PATH_TO_RUN # None
    /\ EXE_PATH_TO_RUN = exe_path
    /\ ShortcutsOf(fs) = <<>>

----------------------------------------------------------------------------
(* Properties of the last phases, of the self-update and of the errors. *)

\* The row k of the log is an ERROR row with one of the texts.
ErrorRow(k, texts) == log[k].type = "ERROR" /\ log[k].message[1] \in texts

Refused(texts) == \E k \in 1..Len(log) : ErrorRow(k, texts)

\* The shortcut files of the application in f all point at exe, and there is one.
ShortcutPointsAt(f, exe) ==
    /\ DOMAIN ShortcutsOf(f) # {}
    /\ \A p \in DOMAIN ShortcutsOf(f) : f[p].kind = "file" /\ f[p].target = exe

ShortcutRefused ==
    Refused({"Could not find Start Menu path.", "Failed to create shell link: {}",
             "Failed to create shortcut: {}"})

RemoveRefused == Refused({"Failed to delete temporary zip file: {}"})

\* The run has reported that it finished, or is about to.
Finishing == pc \in {"finish", "done"}

Aside == AsideName(current_exe)

\* The folder the new installer is extracted into, and the installer archives
\* staged in the Utils folder.
InstallerDirOf(f) ==
    Restrict(f, {p \in DOMAIN f : Len(p) > 3 /\ SubSeq(p, 1, 3) = <<Local, Utils, AppInstaller>>})
InstallerStaged(f) ==
    {p \in DOMAIN f : /\ Len(p) = 3
                      /\ SubSeq(p, 1, 2) = <<Local, Utils>>
                      /\ \E q \in DOMAIN hist.fs0 :
                            Front(q) = InstallerSource /\ Last(q) = Last(p)}

\* f and g are the same but for what they hold at the paths of S.
SameBut(f, g, S) == Restrict(f, DOMAIN f \ S) = Restrict(g, DOMAIN g \ S)

\* The state a self-update is in as long as nothing of the new installer has
\* been written.
NothingWritten ==
    /\ InstallerStaged(fs) = {}
    /\ SameBut(InstallerDirOf(fs), InstallerDirOf(hist.fs0), {current_exe, Aside})

\* One step leaves the file of the running installer as it is or moves it,
\* whole, to the aside name.
RunningFileKept ==
    Exists(fs, current_exe)
        => /\ Exists(fs', current_exe) => fs'[current_exe] = fs[current_exe]
           /\ ~Exists(fs', current_exe)
                  => /\ IsFile(fs', Aside)
                     /\ fs'[Aside] = fs[current_exe]

\* What holds of the self-update in every state.
RenameBeforePayload ==
    /\ pc = "rename" => fs = hist.fs0
    /\ pc = "update"
           => /\ hist.renamed
              /\ ~Exists(fs, current_exe)
              /\ IsFile(fs, Aside) /\ fs[Aside] = hist.fs0[current_exe]
              /\ SameBut(fs, hist.fs0, {current_exe, Aside})
    /\ (hist.rename_tried /\ ~hist.renamed)
           => /\ ~hist.fetched
              /\ NothingWritten
              /\ IsFile(fs, current_exe) /\ fs[current_exe] = hist.fs0[current_exe]
    /\ (hist.rename_tried /\ ~NothingWritten) => hist.renamed

\* C23: in a self-update nothing of the new installer is staged or extracted
\* before the running installer has been renamed aside with success; the file
\* of the running executable is never rewritten or deleted in place, it only
\* moves to the aside name; when the rename fails nothing of the new installer
\* is written.
C23_RenameBeforePayload == [][RenameBeforePayload' /\ RunningFileKept]_vars

\* C23 witness: a run is over in which the running installer was renamed
\* aside and the new installer then written at its path.
C23_Witness ==
    /\ RunOver
    /\ hist.renamed /\ hist.fetched
    /\ IsFile(fs, Aside) /\ fs[Aside] = hist.fs0[current_exe]
    /\ IsFile(fs, current_exe) /\ fs[current_exe].data = Payload
    /\ fs[current_exe].data # hist.fs0[current_exe].data

\* C23 second case reached: the rename was refused and the run went on.
RenameRefusedRunOver ==
    /\ RunOver
    /\ hist.rename_tried /\ ~hist.renamed
    /\ hist.outcome = "Complete"

\* An error of a phase that is not the error of one entry's extraction has
\* been logged: a refused recursive delete, the install directory not
\* created, the staged archive not opened, read or parsed, the rename of the
\* self-update refused.
PhaseError ==
    Refused({"Failed to delete directory '{:?}': {}",
             "Failed to create directory {:?}: {}",
             "Unable to open zip file: {}",
             "Unable to read zip file: {}",
             "Failed to parse zip file: {}",
             "Failed to rename old installer: {}"})

\* C24 as stated: after a phase-level error the run performs no action of a
\* later phase (the filesystem stays, no phase is entered, nothing is handed
\* over) and it ends as Failed.
C24_PhaseErrorEndsRun ==
    [][PhaseError => /\ fs' = fs
                     /\ hist'.phases = hist.phases
                     /\ EXE_PATH_TO_RUN' = None
                     /\ RunOver' => hist'.outcome # "Complete"]_vars

\* A run is over that logged the refused delete of the previous install
\* directory and completed with the executable handed over.
CompleteAfterPhaseError ==
    /\ RunOver
    /\ Refused({"Failed to delete directory '{:?}': {}"})
    /\ hist.outcome = "Complete"
    /\ EXE_PATH_TO_RUN # None

\* The paths of f at or below d.
TreeOf(f, d) == {p \in DOMAIN f : Len(p) >= Len(d) /\ SubSeq(p, 1, Len(d)) = d}

\* The shortcut files of the application in a known shortcut folder whose
\* link target resolves.
KnownLinks(f) ==
    IF shell_ok
    THEN {p \in DOMAIN ShortcutsOf(f) : f[p].kind = "file" /\ f[p].target # <<>>}
    ELSE {}

\* The step adds an ERROR row with one of the texts; it adds any ERROR row.
ErrorAdded(texts) ==
    \E k \in (Len(log) + 1)..Len(log') :
        log'[k].type = "ERROR" /\ log'[k].message[1] \in texts
AnyErrorAdded == \E k \in (Len(log) + 1)..Len(log') : log'[k].type = "ERROR"

DirectoryKept == {"Failed to delete directory '{:?}': {}"}
ShortcutKept == {"Failed to delete shortcut '{:?}': {}"}

DefaultDirectoryDeleted ==
    /\ pc = "copy"
    /\ KnownLinks(hist.fsCheck) = {}
    /\ TreeOf(hist.fsCheck, InstallDir) # {}
    /\ TreeOf(fs, InstallDir) = {}
NothingToRemove ==
    /\ pc = "copy"
    /\ KnownLinks(hist.fsCheck) = {}
    /\ TreeOf(hist.fsCheck, InstallDir) = {}
    /\ fs = hist.fsCheck
    /\ \A k \in 1..Len(log) : log[k].type # "ERROR"

\* The name x.exe is renamed aside to: x.AppInstaller.old in the same folder.
OldName(p) ==
    Append(Front(p), SubSeq(Last(p), 1, Len(Last(p)) - 4) \o <<46, 65, 112, 112, 73, 110, 115, 116, 97, 108, 108, 101, 114, 46, 111, 108, 100>>)

\* The run is at its end: the worker has returned or has panicked.
RunEnded == pc \in {"done", "panicked"}

\* The staging or the extraction of the new installer failed after the rename.
InstallerFailed ==
    /\ hist.renamed
    /\ \/ pc = "panicked"
       \/ Refused({"Failed to download installer.", "Unable to open zip file: {}",
                   "Unable to read zip file: {}", "Failed to parse zip file: {}",
                   "Failed to create directory {:?}: {}", "Failed to extract {}: {}"})
       \/ ~IsFile(fs, LocalInstallerPath)
       \/ fs[LocalInstallerPath].data # Payload

\* C30: when the staging or the extraction of the new installer fails after
\* the rename, the file the previous installer was renamed to exists with the
\* content (and time) the running installer had, from the rename to the end
\* of the run.
C30_AsideKept ==
    (InstallerFailed /\ pc # "rename")
        => /\ IsFile(fs, OldName(current_exe))
           /\ fs[OldName(current_exe)] = hist.fs0[current_exe]

\* C30 witness: a run is over in which the rename succeeded and the staging
\* of the new installer was refused: no installer stands at the path of the
\* running one and the previous one is kept under the aside name.
C30_Witness ==
    /\ RunOver
    /\ hist.renamed
    /\ Refused({"Failed to download installer."})
    /\ ~Exists(fs, current_exe)
    /\ IsFile(fs, OldName(current_exe))
    /\ fs[OldName(current_exe)].data = OldExe

----------------------------------------------------------------------------
(* Two installer processes started for the same application on one machine,
   and the application itself, which the user may start at any time. Each
   process runs run_installation of install_utils.rs from the check on; the
   variables of the worker are those of the process that is running, the
   other's are kept in peer. *)

\* The locals and statics of the process that is running.
RunLocals ==
    [pc |-> pc, log |-> log, copied_zip_path |-> copied_zip_path, exe_path |-> exe_path,
     EXE_PATH_TO_RUN |-> EXE_PATH_TO_RUN, hist |-> hist]

\* The machines of the two processes: an up-to-date local installer, with and
\* without an earlier installation, one archive of the application.
RaceMachines ==
    {<<"local", MaxTime, [dir |-> TRUE, times |-> {1}], prev, Remote("one")>> :
        prev \in {"none", "linked"}}

\* A process after its self-update check found nothing newer.
RaceInit ==
    /\ ZipIdle
    /\ MainIdle
    /\ twin = <<>>
    /\ listview = <<>> /\ ui = <<>> /\ wk = <<>> /\ new_name = <<>>
    /\ DEBUG = FALSE
    /\ running = FALSE
    /\ shell_ok = TRUE
    /\ app_name = MyApp
    /\ \E m \in RaceMachines :
          /\ fs = Machine(m[1], m[2], m[3], m[4], m[5])
          /\ current_exe = CurrentExe(m[1])
    /\ pc = "starting"
    /\ log = add_message(<<>>, "INFO", <<"Checking for installer updates...">>)
    /\ copied_zip_path = None
    /\ exe_path = None
    /\ EXE_PATH_TO_RUN = None
    /\ hist = [StartHistory(fs) EXCEPT !.phases = <<"SelfUpdateCheck">>, !.compared = TRUE]
    /\ peer = [id |-> 1, other |-> RunLocals, fsStart |-> <<>>, passed |-> {}]

Ended(p) == p \in {"done", "panicked"}

\* The processes that have passed their check.
Passed ==
    (IF hist.checked /\ ~hist.wasRunning THEN {peer.id} ELSE {})
        \cup (IF peer.other.hist.checked /\ ~peer.other.hist.wasRunning
              THEN {3 - peer.id} ELSE {})

\* The scheduler of the system lets the other process run.
Switch ==
    /\ ~Ended(peer.other.pc)
    /\ pc' = peer.other.pc
    /\ log' = peer.other.log
    /\ copied_zip_path' = peer.other.copied_zip_path
    /\ exe_path' = peer.other.exe_path
    /\ EXE_PATH_TO_RUN' = peer.other.EXE_PATH_TO_RUN
    /\ hist' = peer.other.hist
    /\ peer' = [peer EXCEPT !.id = 3 - @, !.other = RunLocals]
    /\ UNCHANGED <<zipVars, mainVars, twin, winVars, new_name, fs, DEBUG, app_name, running, shell_ok,
                   current_exe>>

\* The user starts the application.
StartApplication ==
    /\ ~running
    /\ running' = TRUE
    /\ peer' = [peer EXCEPT !.fsStart = fs, !.passed = Passed]
    /\ UNCHANGED <<zipVars, mainVars, twin, winVars, new_name, fs, DEBUG, log, pc, app_name, shell_ok,
                   current_exe, copied_zip_path, exe_path, EXE_PATH_TO_RUN, hist>>

\* A step of the worker of the running process.
WorkerStep ==
    \/ CheckRunning
    \/ Uninstall
    \/ CopyLatestZip
    \/ UnzipFile
    \/ FindExecutable
    \/ CreateShortcut
    \/ RemoveZip
    \/ Finish

\* The system refuses nothing by itself: an ERROR row the step adds is one
\* that the state of the files or the running application calls for.
Unforced ==
    \A k \in (Len(log) + 1)..Len(log') :
        log'[k].type = "ERROR" =>
            \/ log'[k].message[1] \in
                   {"'{}' is running. Please close it and try again.",
                    "Could not find executable for {}", "Installation failed for {}.",
                    "No .zip files found in {:?}"}
            \/ /\ log'[k].message[1] \in {"Unable to open zip file: {}",
                                           "Failed to delete temporary zip file: {}"}
               /\ ~IsFile(fs, copied_zip_path[1])
            \/ /\ log'[k].message[1] = "Failed to create shell link: {}"
               /\ ~Exists(fs, exe_path[1])

RaceNext == (WorkerStep /\ Unforced) \/ Switch \/ StartApplication

SpecRace == RaceInit /\ [][RaceNext]_vars

CountOf(seq, x) == Cardinality({k \in 1..Len(seq) : seq[k] = x})

\* In the history h of a process the check was made at most once, and before
\* every phase of the installation, which are entered only when it found the
\* application not running.
CheckedOnceBefore(h) ==
    /\ CountOf(h.phases, "CheckRunningProcess") = (IF h.checked THEN 1 ELSE 0)
    /\ \A k \in 1..Len(h.phases) :
          h.phases[k] \in LaterPhases
              => /\ \E j \in 1..(k - 1) : h.phases[j] = "CheckRunningProcess"
                 /\ ~h.wasRunning
    /\ h.outcome = "AlreadyRunning" => h.wasRunning

\* The statements of the worker after the check; none of them has a condition
\* on the application or on the other process.
AtStatement(p) ==
    p \in {"uninstall", "copy", "unzip", "find", "shortcut", "remove", "finish"}

\* C29: each process evaluates the running-process check exactly once, before
\* UninstallPrevious, and holds no lock afterwards: a process that has passed
\* its check goes on statement by statement to its end and never fails as
\* AlreadyRunning, whether the application has been started since or the
\* other process is at work on the same folders.
C29_CheckedOnceNoLock ==
    /\ CheckedOnceBefore(hist)
    /\ CheckedOnceBefore(peer.other.hist)
    /\ (hist.checked /\ ~hist.wasRunning) => (AtStatement(pc) \/ Ended(pc))
    /\ (hist.checked /\ hist.wasRunning) => (Ended(pc) /\ ~AtStatement(pc))

\* C29 witness: the application, started after both processes had passed
\* their check, is running; one process has deleted the install folder and
\* extracted into it since, the other has staged its archive and is about to
\* extract into the same folder.
C29_Witness ==
    /\ running
    /\ peer.passed = {1, 2}
    /\ pc = "find"
    /\ peer.other.pc = "unzip"
    /\ InstallDirOf(fs) # InstallDirOf(peer.fsStart)
    /\ InstallDirOf(hist.fsStage) # InstallDirOf(fs)

\* A race seen from its end: both processes passed the check, and one of them
\* ends without an executable because the other deleted the folder after it
\* had extracted.
RaceLostExecutable ==
    /\ peer.passed = {1, 2}
    /\ Ended(pc)
    /\ hist.outcome = "ExecutableNotFound"
    /\ peer.other.hist.outcome \in {"Running", "Complete"}

\* The state the two processes start in is one a single run reaches.
AfterQuietUpdate ==
    /\ pc = "starting"
    /\ ~DEBUG /\ ~running /\ shell_ok
    /\ fs = hist.fs0
    /\ log = add_message(<<>>, "INFO", <<"Checking for installer updates...">>)
    /\ hist = [StartHistory(fs) EXCEPT !.phases = <<"SelfUpdateCheck">>, !.compared = TRUE]
    /\ \E m \in RaceMachines : fs = Machine(m[1], m[2], m[3], m[4], m[5])

----------------------------------------------------------------------------
(* Two runs of run_installation on the same machine, one started with --debug
   and one without. One run takes a step, then the other has to take the same
   step: the variables of the worker are those of the run that is stepping,
   the other run is kept in twin. *)

\* The machines of the two runs: an up-to-date local installer, with and
\* without an earlier installation, and three kinds of source folder.
TwinMachines ==
    {<<"local", MaxTime, [dir |-> TRUE, times |-> {1}], prev, Remote(k)>> :
        prev \in {"none", "linked"}, k \in {"one", "noexe", "missing"}}

\* What a run has done apart from its log: its filesystem, its position, its
\* locals and the record of its phases.
View == <<fs, pc, copied_zip_path, exe_path, EXE_PATH_TO_RUN, hist>>

TwinLocals ==
    [view |-> View, fs |-> fs, pc |-> pc, copied_zip_path |-> copied_zip_path,
     exe_path |-> exe_path, EXE_PATH_TO_RUN |-> EXE_PATH_TO_RUN, hist |-> hist,
     log |-> log, DEBUG |-> DEBUG]

\* main: DEBUG = debug_mode, once, before the window and the worker exist. The
\* run at work is the one with --debug, the other run starts without it.
TwinInit ==
    /\ ZipIdle
    /\ MainIdle
    /\ peer = <<>>
    /\ listview = <<>> /\ ui = <<>> /\ wk = <<>> /\ new_name = <<>>
    /\ DEBUG = TRUE
    /\ running \in BOOLEAN
    /\ shell_ok = TRUE
    /\ app_name = MyApp
    /\ \E m \in TwinMachines :
          /\ fs = Machine(m[1], m[2], m[3], m[4], m[5])
          /\ current_exe = CurrentExe(m[1])
    /\ pc = "update_installer"
    /\ log = <<>>
    /\ copied_zip_path = None
    /\ exe_path = None
    /\ EXE_PATH_TO_RUN = None
    /\ hist = StartHistory(fs)
    /\ twin = [other |-> [TwinLocals EXCEPT !.DEBUG = FALSE], behind |-> FALSE]

RECURSIVE Loud(_)
\* The rows of a log that are not DEBUG rows.
Loud(lg) ==
    IF lg = <<>> THEN <<>>
    ELSE IF Head(lg).type = "DEBUG" THEN Loud(Tail(lg))
    ELSE <<Head(lg)>> \o Loud(Tail(lg))

\* The log of the run without --debug is the log of the run with it less the
\* DEBUG rows.
LogsAgree ==
    IF DEBUG THEN twin.other.log = Loud(log) ELSE log = Loud(twin.other.log)

\* The two runs have taken the same steps, the system answering the calls of
\* the one as it answered those of the other.
Synced == View = twin.other.view /\ LogsAgree

\* The run at work takes a step of its own.
Lead == Synced /\ ~twin.behind /\ Next

\* The run that has stepped waits and the other is at work.
Turn ==
    /\ ~Synced
    /\ ~twin.behind
    /\ fs' = twin.other.fs
    /\ pc' = twin.other.pc
    /\ copied_zip_path' = twin.other.copied_zip_path
    /\ exe_path' = twin.other.exe_path
    /\ EXE_PATH_TO_RUN' = twin.other.EXE_PATH_TO_RUN
    /\ hist' = twin.other.hist
    /\ log' = twin.other.log
    /\ DEBUG' = twin.other.DEBUG
    /\ twin' = [other |-> TwinLocals, behind |-> TRUE]
    /\ UNCHANGED <<zipVars, mainVars, peer, winVars, new_name, app_name, running, shell_ok, current_exe>>

\* The run that is behind takes the step the other took.
Follow == twin.behind /\ ~Synced /\ Next /\ Synced'

\* Both runs have taken the step.
Sync ==
    /\ twin.behind
    /\ Synced
    /\ twin' = [twin EXCEPT !.behind = FALSE]
    /\ UNCHANGED <<zipVars, mainVars, peer, winVars, new_name, fs, runVars, DEBUG, log>>

TwinNext == Lead \/ Turn \/ Follow \/ Sync

SpecTwin == TwinInit /\ [][TwinNext]_vars

\* The run that is behind can take the step the other took. The results of
\* uninstall_application and of unzip_file are those of the state.
CanFollow ==
    IF pc = "uninstall"
    THEN \E R \in {UninstallResults} : ENABLED (UninstallFrom(R) /\ Synced')
    ELSE IF pc = "unzip"
    THEN \E R \in {UnzipResults} : ENABLED (UnzipFrom(R) /\ Synced')
    ELSE ENABLED Follow

\* C22: with debug mode off no DEBUG row is ever appended and every INFO and
\* ERROR row is; the run with --debug and the run without it go through the
\* same filesystem actions, positions and results, whichever of them goes
\* first, and their logs differ by the DEBUG rows alone.
C22_DebugOnlyFilters ==
    /\ ~DEBUG => Loud(log) = log
    /\ (twin.behind /\ ~Synced) => CanFollow

\* Both runs are over, the application is installed anew over an earlier
\* installation, and the log of the run with --debug has rows the other lacks.
C22_Witness ==
    /\ Synced
    /\ twin.behind
    /\ pc = "done"
    /\ hist.outcome = "Complete"
    /\ fs # hist.fs0
    /\ IsDir(hist.fs0, AppDir(MyApp))
    /\ ~DEBUG
    /\ Len(twin.other.log) > Len(log)

----------------------------------------------------------------------------
(* The two threads of the installer: the thread of the window, which runs the
   message loop and the window procedure, and the worker thread that
   handle_wm_create spawns for run_installation. The list view is a window of
   the first thread: SendMessageA from the worker is answered when that thread
   serves it, and the worker waits until then. A row of the list view holds,
   for each of its three columns, the event whose text the column shows. *)

\* Largest number of clicks on the Copy Log button.
MaxClicks == 2

\* The two add_message of the repository: that of main.rs, on the window
\* handles, and that of install_utils.rs, on the nwg list view.
Bindings == {"win32", "nwg"}

UiEvent(n) == <<"ui", n>>
WorkerEvent(n) == <<"worker", n>>

\* LVM_INSERTITEMA: a row with its first column, at iItem or at the end.
InsertAt(lv, iItem, id) ==
    LET at == Min(iItem, Len(lv))
    IN  SubSeq(lv, 1, at) \o <<[type |-> id, time |-> None, message |-> None]>>
            \o SubSeq(lv, at + 1, Len(lv))

\* LVM_SETITEMA: the text of one column of the row iItem, if there is one.
SetAt(lv, iItem, column, id) ==
    IF iItem + 1 \in 1..Len(lv)
    THEN [lv EXCEPT ![iItem + 1] = [@ EXCEPT ![column] = Some(id)]]
    ELSE lv

\* The window procedure of the control for one message: the list and the
\* value SendMessageA returns.
Serve(lv, req) ==
    IF req.msg = "LVM_GETITEMCOUNT" THEN [lv |-> lv, ret |-> Len(lv)]
    ELSE IF req.msg = "LVM_INSERTITEMA"
    THEN [lv |-> InsertAt(lv, req.iItem, req.id), ret |-> 0]
    ELSE IF req.msg = "LVM_SETITEMA"
    THEN [lv |-> SetAt(lv, req.iItem, req.column, req.id), ret |-> 0]
    ELSE [lv |-> lv, ret |-> 0]

\* add_message: the message of its call number step. main.rs reads the count,
\* inserts at it and sets the two columns at it; install_utils.rs inserts at
\* the end, reads the count and sets the two columns at the count less one.
Request(binding, step, id, index) ==
    IF step = (IF binding = "win32" THEN 1 ELSE 2)
    THEN [msg |-> "LVM_GETITEMCOUNT", iItem |-> 0, column |-> "type", id |-> id]
    ELSE IF step = (IF binding = "win32" THEN 2 ELSE 1)
    THEN [msg |-> "LVM_INSERTITEMA",
          iItem |-> IF binding = "win32" THEN index ELSE MaxRows + MaxClicks + 8,
          column |-> "type", id |-> id]
    ELSE [msg |-> "LVM_SETITEMA", iItem |-> index,
          column |-> IF step = 3 THEN "time" ELSE "message", id |-> id]

\* let index = SendMessageA(.., LVM_GETITEMCOUNT, ..) and
\* let new_index = listview.len() - 1
IndexOf(binding, ret) == IF binding = "win32" THEN ret ELSE ret - 1

RECURSIVE AddFrom(_, _, _, _, _)
\* add_message on the thread of the window, from its call number step on: the
\* four messages go to the window procedure one after the other.
AddFrom(lv, binding, step, id, index) ==
    IF step > 4 THEN lv
    ELSE LET req == Request(binding, step, id, index)
             r == Serve(lv, req)
         IN  AddFrom(r.lv, binding, step + 1, id,
                     IF req.msg = "LVM_GETITEMCOUNT" THEN IndexOf(binding, r.ret)
                     ELSE index)

UiAdd(lv, binding, id) == AddFrom(lv, binding, 1, id, 0)

\* run_installation of main.rs, statement by statement: where the worker goes
\* from each position, and whether it calls add_message on the way with a row
\* that is not a DEBUG row.
Program ==
    [update   |-> {[next |-> "start", emit |-> FALSE]},
     start    |-> {[next |-> "check", emit |-> TRUE]},
     check    |-> {[next |-> "delete", emit |-> FALSE], [next |-> "done", emit |-> TRUE]},
     delete   |-> {[next |-> "copy", emit |-> FALSE]},
     copied   |-> {[next |-> "unzip", emit |-> FALSE], [next |-> "finish", emit |-> TRUE]},
     unzip    |-> {[next |-> "find", emit |-> FALSE]},
     find     |-> {[next |-> "shortcut", emit |-> FALSE], [next |-> "remove", emit |-> TRUE]},
     shortcut |-> {[next |-> "remove", emit |-> TRUE]},
     remove   |-> {[next |-> "finish", emit |-> FALSE], [next |-> "finish", emit |-> TRUE]},
     finish   |-> {[next |-> "done", emit |-> TRUE]}]

\* The worker has returned from run_installation.
Returned(w) == w.pc = "done" /\ w.step = 0 /\ w.req = None

\* The worker thread as handle_wm_create spawns it, and the list view after
\* add_message("INFO", "System initialized.").
UiInit ==
    /\ ZipIdle
    /\ RunIdle
    /\ MainIdle
    /\ fs = <<>>
    /\ DEBUG = FALSE
    /\ log = <<>>
    /\ peer = <<>>
    /\ twin = <<>>
    /\ new_name = <<>>
    /\ \E b \in Bindings :
          /\ ui = [pc |-> "loop", binding |-> b, clicks |-> 0, quitAt |-> "none"]
          /\ listview = UiAdd(<<>>, b, UiEvent(0))
    /\ wk = [pc |-> "update", step |-> 0, id |-> 1, index |-> None, req |-> None]

idleVars == <<zipVars, mainVars, runVars, fs, DEBUG, log, peer, twin, new_name>>

\* A statement of run_installation that sends no message by itself; with emit
\* the worker is then at the first call of add_message.
WkStatement ==
    /\ ui.pc # "exit"
    /\ wk.pc \in DOMAIN Program
    /\ wk.step = 0
    /\ wk.req = None
    /\ \E e \in Program[wk.pc] :
          wk' = [wk EXCEPT !.pc = e.next, !.step = IF e.emit THEN 1 ELSE 0]
    /\ UNCHANGED <<idleVars, listview, ui>>

\* copy_with_progress: SendMessageA(progress_hwnd, PBM_SETPOS, ..)
WkProgress ==
    /\ ui.pc # "exit"
    /\ wk.pc = "copy"
    /\ wk.step = 0
    /\ wk.req = None
    /\ wk' = [wk EXCEPT !.pc = "copied",
                        !.req = Some([msg |-> "PBM_SETPOS", iItem |-> 0,
                                      column |-> "type", id |-> WorkerEvent(0)])]
    /\ UNCHANGED <<idleVars, listview, ui>>

\* add_message on the worker thread: SendMessageA(list_hwnd, ..) is called and
\* the worker waits for its return.
WkSend ==
    /\ ui.pc # "exit"
    /\ wk.step \in 1..4
    /\ wk.req = None
    /\ wk' = [wk EXCEPT !.req = Some(Request(ui.binding, wk.step, WorkerEvent(wk.id),
                                            IF wk.index = None THEN 0 ELSE wk.index[1]))]
    /\ UNCHANGED <<idleVars, listview, ui>>

\* The worker after SendMessageA has returned ret.
Resumed(w, binding, ret) ==
    IF w.step = 0 THEN [w EXCEPT !.req = None]
    ELSE [w EXCEPT !.req = None,
                   !.index = IF w.req[1].msg = "LVM_GETITEMCOUNT"
                             THEN Some(IndexOf(binding, ret)) ELSE @,
                   !.step = IF @ = 4 THEN 0 ELSE @ + 1,
                   !.id = IF w.step = 4 THEN @ + 1 ELSE @]

\* GetMessageA on the thread of the window: a message another thread has sent
\* goes to the window procedure, and SendMessageA returns in the worker.
UiServe ==
    /\ ui.pc \in {"loop", "quit"}
    /\ wk.req # None
    /\ LET r == Serve(listview, wk.req[1])
       IN  /\ listview' = r.lv
           /\ wk' = Resumed(wk, ui.binding, r.ret)
    /\ UNCHANGED <<idleVars, ui>>

\* handle_wm_command for IDC_COPY_BUTTON: copy_to_clipboard and the row it adds.
UiCopy ==
    /\ ui.pc = "loop"
    /\ ui.clicks < MaxClicks
    /\ listview' = UiAdd(listview, ui.binding, UiEvent(ui.clicks + 1))
    /\ ui' = [ui EXCEPT !.clicks = @ + 1]
    /\ UNCHANGED <<idleVars, wk>>

\* Mutant: PostQuitMessage ends the worker thread.
PostQuitStops(u, w) ==
    [ui |-> [u EXCEPT !.pc = "quit", !.quitAt = w.pc], wk |-> [w EXCEPT !.pc = "killed"]]

\* PostQuitMessage(0): WM_QUIT is posted to the thread of the window.
PostQuitMessage(u, w) == [ui |-> [u EXCEPT !.pc = "quit", !.quitAt = w.pc], wk |-> w]

\* handle_wm_command for IDC_OK and IDC_CANCEL, and WM_DESTROY.
UiPostQuit ==
    /\ ui.pc = "loop"
    /\ ui' = PostQuitMessage(ui, wk).ui
    /\ wk' = PostQuitMessage(ui, wk).wk
    /\ UNCHANGED <<idleVars, listview>>

\* The process ends: a thread that has not returned ends where it is.
EndProcess(w) == IF Returned(w) THEN w ELSE [w EXCEPT !.pc = "killed"]

\* GetMessageA returns 0 for WM_QUIT: the loop, create_window and main return.
UiQuitLoop ==
    /\ ui.pc = "quit"
    /\ ui' = [ui EXCEPT !.pc = "exit"]
    /\ wk' = EndProcess(wk)
    /\ UNCHANGED <<idleVars, listview>>

UiNext == WkStatement \/ WkProgress \/ WkSend \/ UiServe \/ UiCopy \/ UiPostQuit \/ UiQuitLoop

SpecUi == UiInit /\ [][UiNext]_vars

\* The positions between the first and the last statement of run_installation.
Intermediate == {"delete", "copy", "copied", "unzip", "find", "shortcut", "remove"}

KilledInExtract == ui # <<>> /\ ui.pc = "exit" /\ ui.quitAt = "unzip" /\ wk.pc = "killed"

WorkerWaits ==
    /\ wk # <<>>
    /\ wk.req # None
    /\ wk.req[1].msg = "LVM_GETITEMCOUNT"
    /\ ui.pc = "quit"

\* The events whose add_message has returned.
Emitted ==
    {UiEvent(n) : n \in 0..ui.clicks}
        \cup {WorkerEvent(n) : n \in 1..(wk.id - 1)}

\* The three columns of the row belong to one event.
Whole(row) == row.time = Some(row.type) /\ row.message = Some(row.type)

\* The row is in the list lv, with the columns it has and possibly more.
Kept(row, lv) ==
    \E j \in 1..Len(lv) :
        /\ lv[j].type = row.type
        /\ row.time # None => lv[j].time = row.time
        /\ row.message # None => lv[j].message = row.message

RowsMixed ==
    /\ wk # <<>>
    /\ \E i \in 1..Len(listview), j \in 1..Len(listview) :
          /\ listview[i].type = UiEvent(1)
          /\ listview[i].message = Some(WorkerEvent(1))
          /\ listview[j] = [type |-> WorkerEvent(1), time |-> None, message |-> None]

----------------------------------------------------------------------------
(* The choice among archives of the same time, the name of the file renamed
   aside, and the order of the phases. *)

\* The places in the enumeration copy_latest_zip went through that hold a .zip
\* file no other .zip file of the enumeration is newer than.
GreatestAt(f, order) ==
    {k \in 1..Len(order) :
        /\ order[k] \in TargetZips(f)
        /\ \A j \in 1..Len(order) :
               order[j] \in TargetZips(f) => f[order[j]].mtime <= f[order[k]].mtime}

\* Two archives or more share the greatest time and one of them was staged.
TieStaged ==
    /\ pc = "unzip"
    /\ copied_zip_path # None
    /\ Cardinality(GreatestAt(hist.fsStage, hist.offered)) >= 2

\* C31 as stated: of the archives that share the greatest time the one the
\* enumeration gave last is staged.
C31_Original ==
    TieStaged =>
        \E k \in GreatestAt(hist.fsStage, hist.offered) :
            /\ copied_zip_path = Some(StagePath(hist.offered[k]))
            /\ \A j \in GreatestAt(hist.fsStage, hist.offered) : j <= k

\* C31: when two or more candidate archives share the greatest modification
\* time, StageArchive selects the one observed first in directory-enumeration
\* order.
C31_FirstOfTied ==
    TieStaged =>
        \E k \in GreatestAt(hist.fsStage, hist.offered) :
            /\ copied_zip_path = Some(StagePath(hist.offered[k]))
            /\ \A j \in GreatestAt(hist.fsStage, hist.offered) : k <= j

\* x.zip and y.zip have the same time, the enumeration gave y.zip before x.zip
\* and y.zip was staged.
C31_Witness ==
    /\ TieStaged
    /\ hist.offered = <<ZipY, ZipX>>
    /\ copied_zip_path = Some(StagePath(ZipY))
    /\ IsFile(fs, StagePath(ZipY))

C33_ParseCopiesAgree ==
    zpc # "parse" => ParseResult(main_parse_central_directory(zbuf)) = zret

\* The two bytes at offsets a and a+1 of the buffer, the first the low one.
Low16(buffer, a) == buffer[a + 1] + 256 * buffer[a + 2]

\* The four bytes at offsets a..a+3 as two 16-bit halves, the low half first
\* in the buffer.
Low32(buffer, a) == [hi |-> Low16(buffer, a + 2), lo |-> Low16(buffer, a)]

\* The entry returned for the record matched at offset i has the fields the
\* record holds at the offsets of the central-directory layout.
FieldsOf(buffer, i, e) ==
    /\ e.compression_method = Low16(buffer, i + 10)
    /\ e.compressed_size = Low32(buffer, i + 20)
    /\ e.local_header_offset = Low32(buffer, i + 42)
    /\ e.file_name = Utf8Lossy(SubSeq(buffer, i + 47, i + 46 + Low16(buffer, i + 28)))

\* C34: for every record matched at offset i the returned entry has
\* compression_method equal to the little-endian 16-bit value at i+10,
\* compressed_size the little-endian 32-bit value at i+20,
\* local_header_offset the little-endian 32-bit value at i+42 and a name
\* decoded from exactly the name_len bytes at i+46, name_len being the
\* little-endian 16-bit value at i+28: no extra or comment byte is in the name.
C34_FieldsAtOffsets ==
    (Parsed /\ zret.tag = "Ok") =>
        /\ Len(zret.entries) = Len(Reached(zbuf, 0))
        /\ \A k \in 1..Len(zret.entries) :
               FieldsOf(zbuf, Reached(zbuf, 0)[k], zret.entries[k])

\* C34 witness: a record with one extra byte and a comment of six bytes has
\* been parsed, and its entry is named a.exe.
C34_Witness ==
    /\ Parsed
    /\ zret.tag = "Ok"
    /\ Len(zret.entries) = 2
    /\ zret.entries[1].file_name = NameExe
    /\ Low16(zbuf, Reached(zbuf, 0)[1] + 30) = 1
    /\ Low16(zbuf, Reached(zbuf, 0)[1] + 32) = 6
    /\ zret.entries[1].compressed_size = [hi |-> 0, lo |-> MaxPayload]

\* The last call of extract_file returned one of the errors of its checks of
\* the buffer.
ValidationError ==
    /\ zk > 0
    /\ zlast.ret.tag = "Err"
    /\ zlast.ret.msg \in {"Incomplete local header",
                          "Invalid local file header signature",
                          "File data exceeds buffer"}

\* C36: whenever extract returns an incomplete-local-header, an
\* invalid-local-header or a truncated-payload error, that call has created,
\* truncated or written no file or directory: the filesystem is the one the
\* call started on.
C36_ValidationBeforeEffects == ValidationError => fs = zlast.before

\* C36 witness: an entry was refused for its payload ending beyond the buffer
\* after an entry before it had been extracted, and the file that one wrote
\* and the folder are as they were.
C36_Witness ==
    /\ ValidationError
    /\ zk = 2
    /\ zlast.ret.msg = "File data exceeds buffer"
    /\ zlast.rets[1].tag = "Ok"
    /\ fs = zlast.before
    /\ IsFile(fs, Append(ExtractDir, NameExe))

\* What the previous installation consisted of at the check for the running
\* application is gone: the tree a shortcut of the application led to and the
\* shortcut file, or without such a shortcut the default install directory.
PreviousRemoved ==
    /\ \A p \in KnownLinks(hist.fsCheck) :
           /\ TreeOf(fs, Front(hist.fsCheck[p].target)) = {}
           /\ p \notin DOMAIN fs
    /\ KnownLinks(hist.fsCheck) = {} => TreeOf(fs, InstallDir) = {}

\* copy_latest_zip returned None: there was no archive or the copy failed.
StagingFailed == hist.outcome = "NoArchive"

\* C37: UninstallPrevious runs before the availability of a new archive is
\* checked: in a run that fails because no archive is available or because
\* the staging copy fails, the previous installation (install directory and
\* shortcut) has already been removed, and nothing restores it.
C37_RemovedBeforeStaging ==
    StagingFailed =>
        /\ \E j, k \in 1..Len(hist.phases) :
               j < k /\ hist.phases[j] = "UninstallPrevious" /\ hist.phases[k] = "StageArchive"
        /\ PreviousRemoved

\* The files of the install directory in f that the previous installation
\* left: they were there at the check for the running application and are as
\* they were then.
LeftOver(f) ==
    {p \in TreeOf(f, InstallDir) :
        /\ IsFile(f, p)
        /\ p \in DOMAIN hist.fsCheck
        /\ f[p] = hist.fsCheck[p]}

\* Extract is about to start or has started.
AtExtract == pc = "unzip" \/ "Extract" \in PhaseSet

\* No file of the previous installation is in the install directory, and the
\* executable LocateExecutable found, if any, is a file of that directory.
OnlyNewFiles ==
    /\ LeftOver(fs) = {}
    /\ exe_path # None =>
           /\ exe_path[1] \in TreeOf(fs, InstallDir)
           /\ IsFile(fs, exe_path[1])

\* C38 as stated: whenever the Extract phase starts the install directory
\* contains no file left by a previous installation, so after the run every
\* file in it comes from the newly staged archive and the executable found by
\* LocateExecutable is one extracted in this run.
C38_Original == AtExtract => OnlyNewFiles

\* UninstallPrevious deleted the install directory: no shortcut was found or
\* the shortcut found led into it, and the deletion was not refused.
InstallDirDeleted ==
    /\ \A p \in KnownLinks(hist.fsCheck) : Front(hist.fsCheck[p].target) = InstallDir
    /\ ~Refused(DirectoryKept)

\* C38 (amended): whenever the Extract phase starts in a run whose
\* UninstallPrevious deleted the install directory (found through a shortcut
\* that leads into it, or by default when no shortcut was found), the
\* directory contains no file left by a previous installation, so after the
\* run every file in it comes from the newly staged archive and the
\* executable found is one extracted in this run. When the shortcut led to
\* another folder, or the system refused the deletion (an Error event), the
\* files of the previous installation are in the directory when Extract
\* starts.
C38_CleanWhenDeleted ==
    AtExtract =>
        /\ InstallDirDeleted => OnlyNewFiles
        /\ (pc = "unzip" /\ ~InstallDirDeleted)
               => LeftOver(fs) = {p \in TreeOf(hist.fsCheck, InstallDir) : IsFile(hist.fsCheck, p)}

\* C38 witness: a run is over on a machine whose shortcut led into the install
\* directory: the a.exe located is the one of the archive and the o.dll of
\* the previous installation is gone.
C38_Witness ==
    /\ RunOver
    /\ KnownLinks(hist.fsCheck) # {}
    /\ InstallDirDeleted
    /\ IsFile(hist.fsCheck, Append(InstallDir, NameDll))
    /\ ~Exists(fs, Append(InstallDir, NameDll))
    /\ exe_path = Some(Append(InstallDir, NameExe))
    /\ fs[exe_path[1]].data = Payload

\* C39: parse terminates on every finite buffer: each loop iteration strictly
\* increases the scan index, by 1 on a non-match and by at least 46 on a
\* match, so the number of iterations is at most the buffer length and the
\* number of returned entries at most the buffer length divided by 46.
C39_ScanTerminates ==
    Parsed =>
        /\ zret.tag \in {"Ok", "Err"}
        /\ \A k \in 1..(Len(zscan.scan) - 1) :
               IF SigAt(zbuf, zscan.scan[k])
               THEN zscan.scan[k + 1] >= zscan.scan[k] + 46
               ELSE zscan.scan[k + 1] = zscan.scan[k] + 1
        /\ Len(zscan.scan) <= Len(zbuf)
        /\ Len(zret.entries) <= Len(zbuf) \div 46

\* C39 witness: a buffer with two records has been parsed: the scan went
\* through more than two iterations, two of them matches.
C39_Witness ==
    /\ Parsed
    /\ zret.tag = "Ok"
    /\ Len(zret.entries) = 2
    /\ Len(zscan.scan) > 2
    /\ Cardinality({k \in 1..Len(zscan.scan) : SigAt(zbuf, zscan.scan[k])}) = 2

----------------------------------------------------------------------------
(* add_spaces on its own: the names it is given and the string it returns. *)

\* Longest name built from the letters below.
MaxName == 3

\* a, b, A, B, 1 and the space.
NameLetters == {97, 98, 65, 66, 49, 32}

MyCoolApp == <<77, 121, 67, 111, 111, 108, 65, 112, 112>>

\* The names add_spaces is called with.
AppNames == SeqsUpTo(NameLetters, MaxName) \cup {MyCoolApp, MyApp, Tool}

NameInit ==
    /\ ZipIdle
    /\ MainIdle
    /\ peer = <<>>
    /\ twin = <<>>
    /\ listview = <<>>
    /\ ui = <<>>
    /\ wk = <<>>
    /\ new_name = None
    /\ fs = <<>>
    /\ DEBUG = FALSE
    /\ log = <<>>
    /\ pc = "off"
    /\ app_name \in AppNames
    /\ running = FALSE
    /\ shell_ok = TRUE
    /\ current_exe = <<>>
    /\ copied_zip_path = <<>>
    /\ exe_path = <<>>
    /\ EXE_PATH_TO_RUN = <<>>
    /\ hist = <<>>

\* let shortcut_name = add_spaces(app_name)
AddSpaces ==
    /\ new_name = None
    /\ new_name' = Some(add_spaces(app_name))
    /\ UNCHANGED <<zipVars, fs, runVars, DEBUG, log, mainVars, peer, twin, winVars>>

NameNext == AddSpaces

SpecName == NameInit /\ [][NameNext]_vars

\* The places of name where a lowercase letter stands right before an
\* uppercase one.
Breaks(name) ==
    {k \in 1..(Len(name) - 1) : name[k] \in 97..122 /\ name[k + 1] \in 65..90}

\* The number of those places before the k-th letter.
BreaksBefore(name, k) == Cardinality({b \in Breaks(name) : b < k})

\* out is name with one space put in after each of those places and nothing
\* else changed.
SpacedAtBreaks(name, out) ==
    /\ Len(out) = Len(name) + Cardinality(Breaks(name))
    /\ \A k \in 1..Len(name) : out[k + BreaksBefore(name, k)] = name[k]
    /\ \A b \in Breaks(name) : out[b + BreaksBefore(name, b) + 1] = 32

\* C35: the humanized name of app_name is app_name with exactly one space
\* inserted at each position where a lowercase letter is immediately followed
\* by an uppercase letter and nothing else changed; runs of uppercase letters
\* and digit-to-uppercase boundaries get no space.
C35_SpacesAtCaseBreaks ==
    new_name # None => SpacedAtBreaks(app_name, new_name[1])

\* C35 witness: MyCoolApp has become "My Cool App".
C35_Witness ==
    /\ app_name = MyCoolApp
    /\ new_name = Some(<<77, 121, 32, 67, 111, 111, 108, 32, 65, 112, 112>>)

====
